---- MODULE Spec2Model ----
(***************************************************************************)
(* The entity lifecycle and reference-safety kernel of arcade2d/world:     *)
(* the Map-backed World (src/src/world.ts, class World), the world object  *)
(* base class (src/src/world/worldObject.ts), the object reference         *)
(* (src/src/world/worldObjectRef.ts) and the query engine                  *)
(* (src/src/world/query/worldQuery.ts).                                    *)
(*                                                                         *)
(* A kernel operation runs synchronously, but it hands control to user     *)
(* code each time it invokes a lifecycle hook (onAdd, onRemove, onPurge,   *)
(* step).  The model therefore keeps a call stack: the kernel code between *)
(* two hook invocations is one atomic transition, and while a hook frame   *)
(* is on top of the stack the hook may return, throw, or (in the           *)
(* re-entrant specifications) call back into the kernel.                   *)
(***************************************************************************)
EXTENDS Integers, Sequences, FiniteSets, TLC

(* ------------------------------------------------------------------ *)
(* Bounds of the model                                                *)
(* ------------------------------------------------------------------ *)

\* lastId is capped: add and getNextId are disabled once it is reached.
MaxId == 3

\* The cap on lastId in the re-entrant specifications.
MaxReentrantId == 2

\* The cap on lastId in the specifications of two worlds.
MaxWorldsId == 2

\* The cap on lastId of the template-based World.
MaxTemplateId == 2

\* Number of kernel calls one hook invocation may make (re-entrant specs).
MaxCalls == 1

\* Number of hook frames that may be nested on the call stack.
MaxNest == 2

\* Number of kernel calls one step hook may make in the specification of
\* the step pass.
MaxStepCalls == 3

\* References kept by the driver at one time.
MaxRefs == 2

\* The clock (Date.now()) stops advancing at this value.
MaxClock == 2

\* Number of constraints of a query.
MaxConstraints == 2
MaxInst == 2
MaxMounted == 1
MaxDestroys == 2
MaxList == 2

(* ------------------------------------------------------------------ *)
(* Values                                                             *)
(* ------------------------------------------------------------------ *)

Worlds == {"w1", "w2"}

Objs == {"a", "b", "c", "d"}

\* object._world = null
NoWorld == "null"

\* object._id = 0 before the first admission
NoId == 0

\* Map.get() of a missing key; an omitted optional argument; lastStep unset
Undefined == "undefined"

\* lastStep?: number, not yet assigned
NoStep == -1

\* the value of `position` an object is constructed with: new Vector()
Origin == "0,0"

\* position arguments the driver may pass to add()
Positions == {"1,1"}

\* error values a hook may throw
Errors == {"e1", "e2"}

HookKinds == {"onAdd", "onRemove", "onPurge", "step"}

\* The template-based World is its own class; in the logs it goes by this name.
TemplateWorld == "template"

\* Component classes; a component may or may not define step().
ComponentTypes == {"Physics", "Audio"}

HasStep(component) == component = "Physics"

\* The other optional hooks of a component class.  Sprite is a class that
\* only objects mount, and it defines none of the hooks.
ObjectComponentTypes == ComponentTypes \cup {"Sprite"}

HasDestroy(component) == component \in {"Physics", "Audio"}

HasSave(component) == component \in {"Physics", "Audio"}

HasLoad(component) == component = "Physics"

\* Prefabs and the components their factories give to new objects.
Prefabs == {"crate", "marker"}

\* A registered prefab whose factory returns two components of one class.
Twin == "twin"

\* A key that no prefab is registered under.
Ghost == "ghost"

prefabComponents(prefab) ==
  CASE prefab = "crate" -> <<"Audio", "Physics">>
    [] prefab = Twin -> <<"Audio", "Audio">>
    [] OTHER -> <<>>

\* PrefabOptions.queryable and PrefabOptions.tags of the prefabs.
prefabQueryable(prefab) == prefab # "marker"

prefabTags(prefab) ==
  CASE prefab = "crate" -> {"solid", "box"}
    [] prefab = "marker" -> {"solid"}
    [] OTHER -> {}

\* Prefab.getPrefabFromKey(key): the prefab registered under key, or null.
NoPrefab == "null"

getPrefabFromKey(key) == IF key \in Prefabs \cup {Twin} THEN key ELSE NoPrefab

\* The values of a component's field test.
Hello == "hello"
Updated == "updated"

\* The JSON value null.
Null == [null |-> TRUE]

\* new Vector(x, y), Vector.toTuple() and Vector.set(tuple).
Vector(x, y) == [x |-> x, y |-> y]

toTuple(vector) == <<vector.x, vector.y>>

set(vector, tuple) == [vector EXCEPT !.x = tuple[1], !.y = tuple[2]]

\* The positions the driver places template objects at, given as tuples.
Tuples == {<<0, 0>>, <<1, 2>>}

VARIABLES
  objects,    \* World.objects: Map<number, object>, [w -> Seq([id, obj])] in insertion order
  removed,    \* World.removed: Set<number>, [w -> Seq(id)] in insertion order
  lastId,     \* World.lastId
  lastStep,   \* World.lastStep
  id,         \* AbstractWorldObject._id
  world,      \* AbstractWorldObject._world
  position,   \* AbstractWorldObject.position
  refs,       \* the WorldObjectRef instances created by createRef
  stack,      \* call stack: loop frames of step()/purge() and running hooks
  hooks,      \* hook invocations of the current driver call, in order
  handled,    \* error-handler invocations of the current driver call, in order
  deleted,    \* live-table entries deleted during the current driver call
  pc,         \* "idle": the driver is between calls; "call": a call is running or just ended
  op,         \* the driver's current call or, when idle, its last one
  ret,        \* what the completed driver call returned or threw
  clock,      \* Date.now()
  templateWorld \* the World of the template-based variant: lastStep, lastId,
              \* components (Map<Function, Component>), objects (MappedList)

vars == <<objects, removed, lastId, lastStep, id, world, position, refs,
          stack, hooks, handled, deleted, pc, op, ret, clock, templateWorld>>

\* The whole state as one record: kernel operations are functions on it.
St ==
  [objects |-> objects, removed |-> removed, lastId |-> lastId,
   lastStep |-> lastStep, id |-> id, world |-> world, position |-> position,
   refs |-> refs, stack |-> stack, hooks |-> hooks, handled |-> handled,
   deleted |-> deleted, pc |-> pc, op |-> op, ret |-> ret, clock |-> clock,
   templateWorld |-> templateWorld]

Apply(T) ==
  /\ objects' = T.objects
  /\ removed' = T.removed
  /\ lastId' = T.lastId
  /\ lastStep' = T.lastStep
  /\ id' = T.id
  /\ world' = T.world
  /\ position' = T.position
  /\ refs' = T.refs
  /\ stack' = T.stack
  /\ hooks' = T.hooks
  /\ handled' = T.handled
  /\ deleted' = T.deleted
  /\ pc' = T.pc
  /\ op' = T.op
  /\ ret' = T.ret
  /\ clock' = T.clock
  /\ templateWorld' = T.templateWorld

\* The kernel's own state, as opposed to the call stack and the logs.
Kernel(S) ==
  [objects |-> S.objects, removed |-> S.removed, lastId |-> S.lastId,
   lastStep |-> S.lastStep, id |-> S.id, world |-> S.world, position |-> S.position,
   templateWorld |-> S.templateWorld]

NoPre == [objects |-> <<>>]

\* A StepInfo before any has been computed.
NoInfo == [previous |-> 0, current |-> 0, delta |-> 0]

\* name, w, o: the call; again: the driver's previous call was the same
\* operation on the same world; pre: the kernel state the call started in;
\* last: the StepInfo the latest step() of each world returned.
NoOp ==
  [name |-> "none", w |-> NoWorld, o |-> Undefined, again |-> FALSE, pre |-> NoPre,
   last |-> [w \in Worlds |-> NoInfo]]

NoRet == [ok |-> TRUE, val |-> Undefined]

\* new World() of the template-based variant, no component mounted.
\* objects lists every WorldObject the world has created, in creation
\* order; World.objects holds those of them whose inWorld is set, and
\* queryable (Set<WorldObject>) lists places in objects, in insertion order.
NewTemplateWorld ==
  [lastStep |-> NoStep, lastId |-> 0, destroyed |-> FALSE, components |-> <<>>,
   objects |-> <<>>, queryable |-> <<>>]

Init ==
  /\ objects = [w \in Worlds |-> <<>>]
  /\ removed = [w \in Worlds |-> <<>>]
  /\ lastId = [w \in Worlds |-> 0]
  /\ lastStep = [w \in Worlds |-> NoStep]
  /\ id = [o \in Objs |-> NoId]
  /\ world = [o \in Objs |-> NoWorld]
  /\ position = [o \in Objs |-> Origin]
  /\ refs = {}
  /\ stack = <<>>
  /\ hooks = <<>>
  /\ handled = <<>>
  /\ deleted = <<>>
  /\ pc = "idle"
  /\ op = NoOp
  /\ ret = NoRet
  /\ clock = 0
  /\ templateWorld = NewTemplateWorld

(* ------------------------------------------------------------------ *)
(* Map<number, object> and Set<number>, both insertion-ordered        *)
(* ------------------------------------------------------------------ *)

Range(s) == {s[i] : i \in 1..Len(s)}

MapHas(m, k) == \E i \in 1..Len(m) : m[i].id = k

MapIndex(m, k) == CHOOSE i \in 1..Len(m) : m[i].id = k

MapGet(m, k) == IF MapHas(m, k) THEN m[MapIndex(m, k)].obj ELSE Undefined

\* Map.set keeps the position of an existing key and appends a new one.
MapSet(m, k, v) ==
  IF MapHas(m, k)
    THEN [m EXCEPT ![MapIndex(m, k)] = [id |-> k, obj |-> v]]
    ELSE Append(m, [id |-> k, obj |-> v])

MapDelete(m, k) == SelectSeq(m, LAMBDA e : e.id # k)

MapValues(m) == [i \in 1..Len(m) |-> m[i].obj]

\* Set.add appends a value that is not yet a member.
SetAdd(s, x) == IF x \in Range(s) THEN s ELSE Append(s, x)

SetHas(s, x) == x \in Range(s)

(* ------------------------------------------------------------------ *)
(* The call stack                                                     *)
(* ------------------------------------------------------------------ *)

\* A frame of step() or purge(): i counts the entries its iterator has consumed.
LoopFrame(type, w) ==
  [type |-> type, w |-> w, o |-> Undefined, kind |-> "loop", i |-> 0,
   calls |-> 0, h |-> 0, info |-> NoInfo]

\* A running hook: h is its index in the hook log, calls the kernel calls it made.
HookFrame(kind, w, o, h) ==
  [type |-> "hook", w |-> w, o |-> o, kind |-> kind, i |-> 0,
   calls |-> 0, h |-> h, info |-> NoInfo]

Top(S) == S.stack[Len(S.stack)]

Push(S, f) == [S EXCEPT !.stack = Append(@, f)]

Pop(S) == [S EXCEPT !.stack = SubSeq(@, 1, Len(@) - 1)]

SetTop(S, f) == [S EXCEPT !.stack[Len(S.stack)] = f]

\* A return statement: the value reaches the driver when no caller is left.
Return(S, val) ==
  IF S.stack = <<>> THEN [S EXCEPT !.ret = [ok |-> TRUE, val |-> val]] ELSE S

\* The call site of a hook: control passes to the object's method.
\* k is the id of the live-table entry the call is made for; a step hook
\* is passed the StepInfo of the step() that calls it.
InvokeHook(S, kind, w, o, k) ==
  LET h == Len(S.hooks) + 1
      info == IF kind \in {"step", "componentStep", "objectComponentStep",
                          "ownStep", "mountedStep"}
                THEN Top(S).info ELSE NoInfo
  IN  [S EXCEPT !.hooks = Append(@, [kind |-> kind, w |-> w, o |-> o, id |-> k,
                                     info |-> info, out |-> "running"]),
                !.stack = Append(@, HookFrame(kind, w, o, h))]

(* ------------------------------------------------------------------ *)
(* AbstractWorldObject                                                *)
(* ------------------------------------------------------------------ *)

register(S, o, w, newId) == [S EXCEPT !.world[o] = w, !.id[o] = newId]

deregister(S, o) == [S EXCEPT !.world[o] = NoWorld]

(* ------------------------------------------------------------------ *)
(* World                                                              *)
(* ------------------------------------------------------------------ *)

\* Mutant of getNextId: the next id is one more than the size of the table.
getNextIdFromSize(S, w) == [S EXCEPT !.lastId[w] = Len(S.objects[w]) + 1]

\* ++this.lastId; the value returned is the new lastId.
getNextId(S, w) == [S EXCEPT !.lastId[w] = @ + 1]

\* Mutant of Catches: step() calls the step hooks outside a try block.
CatchesAllButStep(kind) == kind # "step"

\* Mutant of Catches: purge() calls the onPurge hooks outside a try block.
CatchesAllButPurge(kind) == kind # "onPurge"

\* The try/catch around each hook call site.
Catches(kind) ==
  CASE kind = "onAdd" -> TRUE
    [] kind = "onRemove" -> TRUE
    [] kind = "onPurge" -> TRUE
    [] kind = "step" -> TRUE
    [] kind = "componentStep" -> FALSE
    [] kind = "objectComponentStep" -> FALSE
    [] kind = "componentDestroy" -> FALSE
    [] kind = "objectComponentDestroy" -> FALSE
    [] kind = "ownStep" -> TRUE
    [] kind = "mountedStep" -> TRUE

\* Mutant of HandlerFor: every catch block calls the step handler.
StepHandlerForAll(kind) == "onStepErrorHandler"

\* The option each catch block calls.
HandlerFor(kind) ==
  CASE kind = "onAdd" -> "onAddErrorHandler"
    [] kind = "onRemove" -> "onRemoveErrorHandler"
    [] kind = "onPurge" -> "onPurgeErrorHandler"
    [] kind = "step" -> "onStepErrorHandler"
    [] kind = "ownStep" -> "onStepErrorHandler"
    [] kind = "mountedStep" -> "onStepErrorHandler"

\* Mutant of objectsDelete: the entry stays in the table and is only
\* recorded as deleted.
objectsDeleteNothing(S, w, k) ==
  LET e == S.objects[w][MapIndex(S.objects[w], k)]
  IN  [S EXCEPT !.deleted = Append(@, [w |-> w, id |-> e.id, obj |-> e.obj])]

\* this.objects.delete(id).  A Map iterator that has passed the deleted entry
\* keeps its place among the remaining entries.
objectsDelete(S, w, k) ==
  LET p == MapIndex(S.objects[w], k)
      e == S.objects[w][p]
  IN  [S EXCEPT
        !.objects[w] = MapDelete(@, k),
        !.stack = [j \in DOMAIN S.stack |->
                     IF /\ S.stack[j].type = "step"
                        /\ S.stack[j].w = w
                        /\ p <= S.stack[j].i
                       THEN [S.stack[j] EXCEPT !.i = @ - 1]
                       ELSE S.stack[j]],
        !.deleted = Append(@, [w |-> w, id |-> e.id, obj |-> e.obj])]

\* Mutant of removedClear: purge() leaves the pending set as it is.
removedKept(S, w) == S

\* this.removed.clear().  A Set iterator in progress finds no entry left, and
\* visits the values added after the clear.
removedClear(S, w) ==
  [S EXCEPT
    !.removed[w] = <<>>,
    !.stack = [j \in DOMAIN S.stack |->
                 IF S.stack[j].type = "purge" /\ S.stack[j].w = w
                   THEN [S.stack[j] EXCEPT !.i = 0]
                   ELSE S.stack[j]]]

\* The tail of step(): this.lastStep = Date.now(); return info.
stepEnd(S) ==
  LET f == Top(S)
  IN  Return(Pop([S EXCEPT !.lastStep[f.w] = S.clock]), f.info)

\* Runs kernel code from the top frame until a hook is invoked or the stack
\* is empty.
RECURSIVE Run(_)

\* Mutant of stepLoop: each object is passed a StepInfo made from a new
\* reading of the clock.
stepLoopRereadingClock(S) ==
  LET f == Top(S)
      now == [f.info EXCEPT !.current = S.clock, !.delta = S.clock - f.info.previous]
  IN  IF f.i < Len(S.objects[f.w])
        THEN LET e == S.objects[f.w][f.i + 1]
             IN  InvokeHook(SetTop(S, [f EXCEPT !.i = @ + 1, !.info = now]),
                            "step", f.w, e.obj, e.id)
        ELSE Run(Push(SetTop(S, [f EXCEPT !.kind = "purging"]), LoopFrame("purge", f.w)))

\* The loop of step() and the call of purge() that follows it:
\* for (const [_, object] of this.objects) { try { object.step(this, info) } ... }
stepLoop(S) ==
  LET f == Top(S)
  IN  IF f.i < Len(S.objects[f.w])
        THEN LET e == S.objects[f.w][f.i + 1]
             IN  InvokeHook(SetTop(S, [f EXCEPT !.i = @ + 1]), "step", f.w, e.obj, e.id)
        ELSE Run(Push(SetTop(S, [f EXCEPT !.kind = "purging"]), LoopFrame("purge", f.w)))

\* Mutant of purgeLoop: purge() notifies the pending objects and sweeps
\* nothing, neither the live table nor the pending set.
purgeLoopNotifyingOnly(S) ==
  LET f == Top(S)
  IN  IF f.i < Len(S.removed[f.w])
        THEN LET k == S.removed[f.w][f.i + 1]
                 S1 == SetTop(S, [f EXCEPT !.i = @ + 1])
                 object == MapGet(S1.objects[f.w], k)
             IN  IF object # Undefined
                   THEN InvokeHook(S1, "onPurge", f.w, object, k)
                   ELSE Run(S1)
        ELSE LET S2 == Pop(S)
             IN  IF S2.stack # <<>> /\ Top(S2).type = "step"
                   THEN Run(stepEnd(S2))
                   ELSE Run(Return(S2, Undefined))

\* The loop of purge() and the clear() that follows it:
\* for (const id of this.removed) { const object = this.objects.get(id); if (object) ... }
purgeLoop(S) ==
  LET f == Top(S)
  IN  IF f.i < Len(S.removed[f.w])
        THEN LET k == S.removed[f.w][f.i + 1]
                 S1 == SetTop(S, [f EXCEPT !.i = @ + 1])
                 object == MapGet(S1.objects[f.w], k)
             IN  IF object # Undefined
                   THEN InvokeHook(objectsDelete(S1, f.w, k), "onPurge", f.w, object, k)
                   ELSE Run(S1)
        ELSE LET S2 == Pop(removedClear(S, f.w))
             IN  IF S2.stack # <<>> /\ Top(S2).type = "step"
                   THEN Run(stepEnd(S2))
                   ELSE Run(Return(S2, Undefined))

\* WorldObject.step(info) of the template-based variant:
\* if (!this._destroyed) for (const [_, component] of this.components) ...
objectStep(S) ==
  LET f == Top(S)
      object == S.templateWorld.objects[f.o]    \* f.o: the object's place in the list
      components == object.components
  IN  IF ~object.destroyed /\ f.i < Len(components)
        THEN LET S1 == SetTop(S, [f EXCEPT !.i = @ + 1])
             IN  IF HasStep(components[f.i + 1].type)
                   THEN InvokeHook(S1, "objectComponentStep", TemplateWorld,
                                   components[f.i + 1].type, object.id)
                   ELSE Run(S1)
        ELSE Run(Pop(S))

\* World.step() of the template-based variant after its StepInfo is made:
\* the loop over the world's components, then the loop over its objects,
\* then this.lastStep = Date.now(); return info.
templateStepLoop(S) ==
  LET f == Top(S)
      T == S.templateWorld
  IN  IF f.kind = "components"
        THEN IF f.i < Len(T.components)
               THEN LET S1 == SetTop(S, [f EXCEPT !.i = @ + 1])
                    IN  IF HasStep(T.components[f.i + 1])
                          THEN InvokeHook(S1, "componentStep", TemplateWorld,
                                          T.components[f.i + 1], NoId)
                          ELSE Run(S1)
               ELSE Run(SetTop(S, [f EXCEPT !.kind = "objects", !.i = 0]))
        ELSE IF f.i < Len(T.objects)
               THEN IF T.objects[f.i + 1].inWorld
                      THEN Run(Push(SetTop(S, [f EXCEPT !.i = @ + 1]),
                                    [LoopFrame("objectStep", TemplateWorld) EXCEPT
                                       !.o = f.i + 1, !.info = f.info]))
                      ELSE Run(SetTop(S, [f EXCEPT !.i = @ + 1]))
               ELSE Return(Pop([S EXCEPT !.templateWorld.lastStep = S.clock]), f.info)

\* Mutant of __remove: the object is taken out of World.objects only.
__removeFromObjectsOnly(S, n) ==
  IF S.templateWorld.objects[n].inWorld
    THEN [S EXCEPT !.templateWorld.objects[n].inWorld = FALSE,
                   !.templateWorld.objects[n].removals = @ + 1]
    ELSE S

\* World.__remove(object) of the template-based variant; removals counts
\* the times the object was taken out of World.objects.
__remove(S, n) ==
  LET S1 == IF S.templateWorld.objects[n].inWorld
              THEN [S EXCEPT !.templateWorld.objects[n].inWorld = FALSE,
                             !.templateWorld.objects[n].removals = @ + 1]
              ELSE S
  IN  IF prefabQueryable(S.templateWorld.objects[n].prefab)
        THEN [S1 EXCEPT !.templateWorld.queryable = SelectSeq(@, LAMBDA m : m # n)]
        ELSE S1

\* The body of WorldObject.destroy() once _destroyed was found unset: the
\* loop over the components, then this.world.__remove(this) and
\* this._destroyed = true.  destroys counts the calls of a component's hook.
objectDestroyLoop(S) ==
  LET f == Top(S)
      n == f.o
      object == S.templateWorld.objects[n]
  IN  IF f.i < Len(object.components)
        THEN LET S1 == SetTop(S, [f EXCEPT !.i = @ + 1])
                 component == object.components[f.i + 1]
             IN  IF HasDestroy(component.type)
                   THEN InvokeHook(
                          [S1 EXCEPT !.templateWorld.objects[n].components[f.i + 1].destroys
                                        = @ + 1],
                          "objectComponentDestroy", TemplateWorld, component.type, object.id)
                   ELSE Run(S1)
        ELSE Run(Return(Pop([__remove(S, n) EXCEPT
                               !.templateWorld.objects[n].destroyed = TRUE]), Undefined))

\* WorldObject.destroy() of the n-th object the world created; destroyCalled
\* records that there was a call.
objectDestroy(S, n) ==
  LET S1 == [S EXCEPT !.templateWorld.objects[n].destroyCalled = TRUE]
  IN  IF ~S.templateWorld.objects[n].destroyed
        THEN Run(Push(S1, [LoopFrame("objectDestroy", TemplateWorld) EXCEPT !.o = n]))
        ELSE Run(Return(S1, Undefined))

\* The body of World.destroy() once _destroyed was found unset: destroy()
\* of the objects World.objects holds, each of which takes itself out of
\* World.objects, then the destroy hooks of the world's components, then
\* this._destroyed = true.
templateDestroyLoop(S) ==
  LET f == Top(S)
      T == S.templateWorld
  IN  IF f.kind = "objects"
        THEN IF f.i < Len(T.objects)
               THEN IF T.objects[f.i + 1].inWorld
                      THEN objectDestroy(SetTop(S, [f EXCEPT !.i = @ + 1]), f.i + 1)
                      ELSE Run(SetTop(S, [f EXCEPT !.i = @ + 1]))
               ELSE Run(SetTop(S, [f EXCEPT !.kind = "components", !.i = 0]))
        ELSE IF f.i < Len(T.components)
               THEN LET S1 == SetTop(S, [f EXCEPT !.i = @ + 1])
                    IN  IF HasDestroy(T.components[f.i + 1])
                          THEN InvokeHook(S1, "componentDestroy", TemplateWorld,
                                          T.components[f.i + 1], NoId)
                          ELSE Run(S1)
               ELSE Run(Return(Pop([S EXCEPT !.templateWorld.destroyed = TRUE]), Undefined))

\* The components a WorldObject of the array-backed variant was constructed
\* with, in the order of the constructor's list.
mountedOn(o) ==
  CASE o = "a" -> <<"Physics", "Audio">>
    [] o = "b" -> <<"Audio">>
    [] OTHER -> <<>>

\* Mutant of __step: the components are stepped first and the object's own
\* step last.
__stepOwnLast(S) ==
  LET f == Top(S)
      components == mountedOn(f.o)
  IN  IF f.kind = "own"
        THEN IF f.i < Len(components)
               THEN InvokeHook(SetTop(S, [f EXCEPT !.i = @ + 1]),
                               "mountedStep", f.w, f.o, f.i + 1)
               ELSE InvokeHook(SetTop(S, [f EXCEPT !.kind = "components"]),
                               "ownStep", f.w, f.o, S.id[f.o])
        ELSE Run(Pop(S))

\* WorldObject.__step(world, info): this.step(world, info), then
\* component.step(world, this, info) for each entry of this.components.
\* The hook of a component is logged with its place in the mount order.
__step(S) ==
  LET f == Top(S)
      components == mountedOn(f.o)
  IN  IF f.kind = "own"
        THEN InvokeHook(SetTop(S, [f EXCEPT !.kind = "components"]),
                        "ownStep", f.w, f.o, S.id[f.o])
        ELSE IF f.i < Len(components)
               THEN InvokeHook(SetTop(S, [f EXCEPT !.i = @ + 1]),
                               "mountedStep", f.w, f.o, f.i + 1)
               ELSE Run(Pop(S))

\* The loop of step() of the array-backed World and the call of purge()
\* that follows it: for (const object of this.objects) { try {
\* object.__step(this, info) } ... }.  snap is the array the loop iterates.
arrayStepLoop(S) ==
  LET f == Top(S)
  IN  IF f.kind = "purging"
        THEN Run(stepEnd(S))
        ELSE IF f.i < Len(f.snap)
               THEN Run(Push(SetTop(S, [f EXCEPT !.i = @ + 1]),
                             [LoopFrame("__step", f.w) EXCEPT
                                !.o = f.snap[f.i + 1], !.kind = "own", !.info = f.info]))
               ELSE Run(Push(SetTop(S, [f EXCEPT !.kind = "purging"]),
                             LoopFrame("purge", f.w)))

Run(S) ==
  IF S.stack = <<>> THEN S
  ELSE CASE Top(S).type = "hook" -> S
         [] Top(S).type = "step" -> stepLoop(S)
         [] Top(S).type = "purge" -> purgeLoop(S)
         [] Top(S).type = "templateStep" -> templateStepLoop(S)
         [] Top(S).type = "objectStep" -> objectStep(S)
         [] Top(S).type = "objectDestroy" -> objectDestroyLoop(S)
         [] Top(S).type = "templateDestroy" -> templateDestroyLoop(S)
         [] Top(S).type = "arrayStep" -> arrayStepLoop(S)
         [] Top(S).type = "__step" -> __step(S)

\* Mutant of add: an object that was admitted before keeps the id it has.
addReusingId(S, w, o, p) ==
  IF S.world[o] = NoWorld
    THEN LET S1 == IF S.id[o] = NoId THEN getNextId(S, w) ELSE S
             newId == IF S.id[o] = NoId THEN S1.lastId[w] ELSE S.id[o]
             S2 == [S1 EXCEPT !.objects[w] = MapSet(@, newId, o)]
             S3 == IF p # Undefined THEN [S2 EXCEPT !.position[o] = p] ELSE S2
         IN  InvokeHook(register(S3, o, w, newId), "onAdd", w, o, newId)
    ELSE Return(S, o)

\* Mutant of add: the position argument is applied before the ownership test.
addMovingOwned(S, w, o, p) ==
  LET S0 == IF p # Undefined THEN [S EXCEPT !.position[o] = p] ELSE S
  IN  IF S.world[o] = NoWorld
        THEN LET S1 == getNextId(S0, w)
                 newId == S1.lastId[w]
                 S2 == [S1 EXCEPT !.objects[w] = MapSet(@, newId, o)]
             IN  InvokeHook(register(S2, o, w, newId), "onAdd", w, o, newId)
        ELSE Return(S0, o)

\* World.add(object, position?)
add(S, w, o, p) ==
  IF S.world[o] = NoWorld
    THEN LET S1 == getNextId(S, w)
             newId == S1.lastId[w]
             S2 == [S1 EXCEPT !.objects[w] = MapSet(@, newId, o)]
             S3 == IF p # Undefined THEN [S2 EXCEPT !.position[o] = p] ELSE S2
         IN  InvokeHook(register(S3, o, w, newId), "onAdd", w, o, newId)
    ELSE Return(S, o)

\* Mutant of remove: it acts on every object that has been admitted
\* somewhere, whatever its back-reference.
removeUnowned(S, w, o) ==
  IF S.id[o] # NoId
    THEN LET S1 == [S EXCEPT !.removed[w] = SetAdd(@, S.id[o])]
             S2 == [S1 EXCEPT !.refs = {IF r.for = o THEN [r EXCEPT !.removed = TRUE] ELSE r
                                         : r \in S1.refs}]
         IN  InvokeHook(deregister(S2, o), "onRemove", w, o, S.id[o])
    ELSE Return(S, Undefined)

\* Mutant of remove: the onRemove hook is called with the back-reference
\* still set.
removeKeepingOwner(S, w, o) ==
  IF S.world[o] = w
    THEN LET S1 == [S EXCEPT !.removed[w] = SetAdd(@, S.id[o])]
             S2 == [S1 EXCEPT !.refs = {IF r.for = o THEN [r EXCEPT !.removed = TRUE] ELSE r
                                         : r \in S1.refs}]
         IN  InvokeHook(S2, "onRemove", w, o, S.id[o])
    ELSE Return(S, Undefined)

\* World.remove(object)
remove(S, w, o) ==
  IF S.world[o] = w
    THEN LET S1 == [S EXCEPT !.removed[w] = SetAdd(@, S.id[o])]
             S2 == [S1 EXCEPT !.refs = {IF r.for = o THEN [r EXCEPT !.removed = TRUE] ELSE r
                                         : r \in S1.refs}]
         IN  InvokeHook(deregister(S2, o), "onRemove", w, o, S.id[o])
    ELSE Return(S, Undefined)

\* World.purge()
purge(S, w) == Run(Push(S, LoopFrame("purge", w)))

\* World.destroy() of the template-based variant.
templateDestroy(S) ==
  IF ~S.templateWorld.destroyed
    THEN Run(Push(S, [LoopFrame("templateDestroy", TemplateWorld) EXCEPT !.kind = "objects"]))
    ELSE Run(Return(S, Undefined))

\* World.step() of the template-based variant.
templateStep(S) ==
  LET now == S.clock
      last == S.templateWorld.lastStep
      previous == IF last = NoStep THEN now ELSE last
      info == [previous |-> previous, current |-> now, delta |-> now - previous]
  IN  Run(Push(S, [LoopFrame("templateStep", TemplateWorld) EXCEPT
                     !.kind = "components", !.info = info]))

\* The TypeError of reading a property of undefined or of null.
TypeError == [ok |-> FALSE, val |-> "TypeError"]

\* The error addComponent throws for a type that is already mounted.
Duplicate == [ok |-> FALSE, val |-> "Duplicate"]

\* ComponentMountable.addComponent(component) on the template-based World.
addComponent(S, component) ==
  IF \E i \in DOMAIN S.templateWorld.components :
       S.templateWorld.components[i] = component
    THEN [S EXCEPT !.ret = Duplicate]
    ELSE Return([S EXCEPT !.templateWorld.components = Append(@, component)], component)

(* ------------------------------------------------------------------ *)
(* ComponentMountable: components is a Map<Function, Component>, here  *)
(* the mounted components in insertion order                           *)
(* ------------------------------------------------------------------ *)

\* A component instance: its class, which instance of the class it is, its
\* field test, and the number of calls of its destroy hook so far.
Component(type, inst) == [type |-> type, inst |-> inst, test |-> Hello, destroys |-> 0]

\* The error getComponent throws for a class that is not mounted.
NoComponent == [ok |-> FALSE, val |-> "NoComponent"]

hasComponent(components, type) ==
  \E i \in DOMAIN components : components[i].type = type

getComponent(components, type) ==
  IF hasComponent(components, type)
    THEN [ok |-> TRUE,
          val |-> components[CHOOSE i \in DOMAIN components : components[i].type = type]]
    ELSE NoComponent

\* Mutant of mountableAddComponent: the new instance takes the place of the
\* mounted one.
mountableAddComponentReplacing(components, component) ==
  [ok |-> TRUE,
   components |->
     IF hasComponent(components, component.type)
       THEN [i \in DOMAIN components |->
               IF components[i].type = component.type THEN component ELSE components[i]]
       ELSE Append(components, component)]

\* addComponent(component) on a component map: ok is false when it throws.
mountableAddComponent(components, component) ==
  IF hasComponent(components, component.type)
    THEN [ok |-> FALSE, components |-> components]
    ELSE [ok |-> TRUE, components |-> Append(components, component)]

removeComponent(components, type) ==
  SelectSeq(components, LAMBDA component : component.type # type)

\* The constructor: it adds the components the factory returns, one by one,
\* and the first addComponent that throws ends it.
RECURSIVE ComponentMountable(_, _)
ComponentMountable(components, factory) ==
  IF factory = <<>>
    THEN [ok |-> TRUE, components |-> components]
    ELSE LET added == mountableAddComponent(components, Head(factory))
         IN  IF added.ok
               THEN ComponentMountable(added.components, Tail(factory))
               ELSE added

\* prefab.options.components(owner): one new instance per listed class.
factory(prefab) ==
  [i \in DOMAIN prefabComponents(prefab) |-> Component(prefabComponents(prefab)[i], i)]

\* World.create(prefab, position) of the template-based variant; at is
\* <<>> when the position is left out.  new WorldObject(...) throws when
\* the constructor of ComponentMountable does, after the id is taken.
create(S, prefab, at) ==
  LET newId == S.templateWorld.lastId + 1
      S1 == [S EXCEPT !.templateWorld.lastId = newId]
      built == ComponentMountable(<<>>, factory(prefab))
      object == [id |-> newId, prefab |-> prefab, destroyed |-> FALSE, inWorld |-> TRUE,
                 removals |-> 0, destroyCalled |-> FALSE,
                 position |-> IF at = <<>>
                                THEN Vector(0, 0)
                                ELSE set(Vector(0, 0), toTuple(at[1])),
                 components |-> built.components]
  IN  IF built.ok
        THEN Return([S1 EXCEPT !.templateWorld.objects = Append(@, object),
                               !.templateWorld.queryable =
                                  IF prefabQueryable(prefab)
                                    THEN SetAdd(@, Len(S.templateWorld.objects) + 1)
                                    ELSE @], newId)
        ELSE [S1 EXCEPT !.ret = Duplicate]

\* addComponent, removeComponent and getComponent of the n-th object the
\* world created.
objectAddComponent(S, n, component) ==
  LET added == mountableAddComponent(S.templateWorld.objects[n].components, component)
  IN  IF added.ok
        THEN Return([S EXCEPT !.templateWorld.objects[n].components = added.components],
                    component)
        ELSE [S EXCEPT !.ret = Duplicate]

objectRemoveComponent(S, n, type) ==
  Return([S EXCEPT !.templateWorld.objects[n].components = removeComponent(@, type)],
         Undefined)

objectGetComponent(S, n, type) ==
  [S EXCEPT !.ret = getComponent(S.templateWorld.objects[n].components, type)]

(* ------------------------------------------------------------------ *)
(* Saved state                                                        *)
(* ------------------------------------------------------------------ *)

\* save() and load(data) of a component class that defines them:
\* return { test: this.test } and this.test = data.test.
componentSave(component) == [test |-> component.test]

\* Mutant of componentLoad: the component keeps the test it has.
componentLoadKeeping(component, data) == component

componentLoad(component, data) == [component EXCEPT !.test = data.test]

\* WorldObject.save(): k is the prefab's key, p the position as a tuple and
\* c the entries [constructor.name, save() or null] in mount order.
objectSave(object) ==
  [k |-> object.prefab,
   p |-> toTuple(object.position),
   c |-> [i \in DOMAIN object.components |->
            [type |-> object.components[i].type,
             payload |-> IF HasSave(object.components[i].type)
                           THEN componentSave(object.components[i])
                           ELSE Null]]]

\* The loops of WorldObject.load(data): i runs over the keys of data.c and
\* j over the mounted components.  A load hook that is passed null throws
\* the TypeError of reading null.test, which ends load().
RECURSIVE loadLoop(_, _, _, _, _)
loadLoop(S, n, data, i, j) ==
  LET object == S.templateWorld.objects[n]
  IN  IF i > Len(data.c) THEN [S EXCEPT !.ret = [ok |-> TRUE, val |-> Undefined]]
      ELSE IF j > Len(object.components) THEN loadLoop(S, n, data, i + 1, 1)
      ELSE LET component == object.components[j]
               call == [kind |-> "load", w |-> TemplateWorld, o |-> component.type,
                        id |-> object.id, info |-> data.c[i].payload, out |-> "ok"]
           IN  IF HasLoad(component.type) /\ component.type = data.c[i].type
                 THEN IF data.c[i].payload = Null
                        THEN [S EXCEPT !.hooks = Append(@, [call EXCEPT !.out = TypeError.val]),
                                       !.ret = TypeError]
                        ELSE loadLoop(
                               [S EXCEPT !.hooks = Append(@, call),
                                         !.templateWorld.objects[n].components[j] =
                                            componentLoad(component, data.c[i].payload)],
                               n, data, i, j + 1)
                 ELSE loadLoop(S, n, data, i, j + 1)

\* Mutant of objectLoad: the position is left as it is.
objectLoadKeepingPosition(S, n, data) == loadLoop(S, n, data, 1, 1)

\* WorldObject.load(data) of the n-th object the world created.
objectLoad(S, n, data) ==
  loadLoop([S EXCEPT !.templateWorld.objects[n].position = set(@, data.p)], n, data, 1, 1)

\* World.objects: the objects the world holds, in the order they were added.
objectsOf(T) == SelectSeq(T.objects, LAMBDA object : object.inWorld)

\* World.save()
templateSave(S) ==
  [S EXCEPT !.ret = [ok |-> TRUE,
                     val |-> [i \in DOMAIN objectsOf(S.templateWorld) |->
                                objectSave(objectsOf(S.templateWorld)[i])]]]

\* Mutant of templateLoad: an entry that is skipped takes an id.
RECURSIVE templateLoadTakingIds(_, _, _)
templateLoadTakingIds(S, data, i) ==
  IF i > Len(data) THEN [S EXCEPT !.ret = [ok |-> TRUE, val |-> Undefined]]
  ELSE LET prefab == getPrefabFromKey(data[i].k)
           S1 == create(S, prefab, <<Vector(data[i].p[1], data[i].p[2])>>)
           S2 == objectLoad(S1, Len(S1.templateWorld.objects), data[i])
       IN  IF prefab = NoPrefab
             THEN templateLoadTakingIds([S EXCEPT !.templateWorld.lastId = @ + 1], data, i + 1)
           ELSE IF ~S1.ret.ok THEN S1
           ELSE IF ~S2.ret.ok THEN S2
           ELSE templateLoadTakingIds(S2, data, i + 1)

\* World.load(data), from entry i on.
RECURSIVE templateLoad(_, _, _)
templateLoad(S, data, i) ==
  IF i > Len(data) THEN [S EXCEPT !.ret = [ok |-> TRUE, val |-> Undefined]]
  ELSE LET prefab == getPrefabFromKey(data[i].k)
           S1 == create(S, prefab, <<Vector(data[i].p[1], data[i].p[2])>>)
           S2 == objectLoad(S1, Len(S1.templateWorld.objects), data[i])
       IN  IF prefab = NoPrefab THEN templateLoad(S, data, i + 1)
           ELSE IF ~S1.ret.ok THEN S1
           ELSE IF ~S2.ret.ok THEN S2
           ELSE templateLoad(S2, data, i + 1)

\* The query functions of the template-based variant.
PrefabKeyQuery(key) == [by |-> "key", arg |-> key]

TagQuery(tag) == [by |-> "tag", arg |-> tag]

\* query(object)
queryHolds(query, object) ==
  IF query.by = "key"
    THEN object.prefab = query.arg
    ELSE query.arg \in prefabTags(object.prefab)

\* The null that findById and findOne return.
NoObject == 0

\* World.findById(id): this.objects.get(id), as a place in objects.
findById(S, k) ==
  LET T == S.templateWorld
      held == {n \in DOMAIN T.objects : T.objects[n].inWorld /\ T.objects[n].id = k}
  IN  IF held = {} THEN NoObject ELSE CHOOSE n \in held : TRUE

\* World.findMany(query)
findMany(S, query) ==
  SelectSeq(S.templateWorld.queryable,
            LAMBDA n : queryHolds(query, S.templateWorld.objects[n]))

\* World.findOne(query)
findOne(S, query) ==
  IF findMany(S, query) = <<>> THEN NoObject ELSE findMany(S, query)[1]

\* World.willPurge(object), World.contains(object) and World.getObjects()
willPurge(S, w, o) == SetHas(S.removed[w], S.id[o])

contains(S, w, o) == MapGet(S.objects[w], S.id[o]) = o

getObjects(S, w) == MapValues(S.objects[w])

\* Mutant of step: an unset lastStep counts as time zero.
stepFromEpoch(S, w) ==
  LET now == S.clock
      previous == IF S.lastStep[w] = NoStep THEN 0 ELSE S.lastStep[w]
      info == [previous |-> previous, current |-> now, delta |-> now - previous]
  IN  Run(Push(S, [LoopFrame("step", w) EXCEPT !.info = info]))

\* World.step()
step(S, w) ==
  LET now == S.clock
      previous == IF S.lastStep[w] = NoStep THEN now ELSE S.lastStep[w]
      info == [previous |-> previous, current |-> now, delta |-> now - previous]
  IN  Run(Push(S, [LoopFrame("step", w) EXCEPT !.info = info]))

\* World.step() of the array-backed variant; this.objects is the array made
\* from the values of the table at the last add() or purge().
arrayStep(S, w) ==
  LET now == S.clock
      previous == IF S.lastStep[w] = NoStep THEN now ELSE S.lastStep[w]
      info == [previous |-> previous, current |-> now, delta |-> now - previous]
  IN  Run(Push(S, [type |-> "arrayStep", w |-> w, o |-> Undefined, kind |-> "loop",
                   i |-> 0, calls |-> 0, h |-> 0, info |-> info,
                   snap |-> MapValues(S.objects[w])]))

\* What follows a hook call site once the hook has returned or its failure
\* has been handled; f is the hook's frame, already popped.
resume(S, f) ==
  CASE f.kind = "onAdd" -> Return(S, f.o)
    [] f.kind = "onRemove" -> Return(S, Undefined)
    [] f.kind = "onPurge" -> Run(S)
    [] f.kind = "step" -> Run(S)
    [] f.kind = "componentStep" -> Run(S)
    [] f.kind = "objectComponentStep" -> Run(S)
    [] f.kind = "componentDestroy" -> Run(S)
    [] f.kind = "objectComponentDestroy" -> Run(S)
    [] f.kind \in {"ownStep", "mountedStep"} ->
         \* a failure leaves __step(): the catch block is in World.step
         IF S.hooks[f.h].out \in Errors THEN Run(Pop(S)) ELSE Run(S)

\* The running hook returns normally.
hookReturn(S) ==
  LET f == Top(S)
  IN  resume(Pop([S EXCEPT !.hooks[f.h].out = "ok"]), f)

\* Frames of kernel operations that an uncaught exception leaves behind.
RECURSIVE unwind(_)
unwind(S) ==
  IF S.stack = <<>> \/ Top(S).type = "hook" THEN S ELSE unwind(Pop(S))

\* Mutant of hookThrow: the catch block of add() takes the object out again,
\* and the catch block of remove() keeps it in the world.
hookThrowUndoing(S, e) ==
  LET f == Top(S)
      S1 == Pop([S EXCEPT !.hooks[f.h].out = e])
      S2 == [S1 EXCEPT !.handled =
               Append(@, [handler |-> HandlerFor(f.kind), o |-> f.o, err |-> e])]
      S3 == CASE f.kind = "onAdd" ->
                   [S2 EXCEPT !.objects[f.w] = MapDelete(@, S.hooks[f.h].id),
                              !.world[f.o] = NoWorld]
               [] f.kind = "onRemove" -> [S2 EXCEPT !.world[f.o] = f.w]
               [] OTHER -> S2
  IN  resume(S3, f)

\* The running hook throws e.
RECURSIVE hookThrow(_, _)
hookThrow(S, e) ==
  LET f == Top(S)
      S1 == Pop([S EXCEPT !.hooks[f.h].out = e])
  IN  IF Catches(f.kind)
        THEN resume([S1 EXCEPT !.handled =
                       Append(@, [handler |-> HandlerFor(f.kind), o |-> f.o, err |-> e])], f)
        ELSE LET S2 == unwind(S1)
             IN  IF S2.stack = <<>>
                   THEN [S2 EXCEPT !.ret = [ok |-> FALSE, val |-> e]]
                   ELSE hookThrow(S2, e)


\* new WorldObjectRef(objects, world, id); for and removed are history
\* fields: the object the reference was taken for, and whether that object
\* has been removed since.
WorldObjectRef(w, k, o) == [world |-> w, id |-> k, for |-> o, removed |-> FALSE]

\* The error createRef throws for an object of another world or of none.
NotOwned == [ok |-> FALSE, val |-> "NotOwned"]

\* Mutant of createRef: only an object of no world is rejected.
createRefOfAnyWorld(S, w, o) ==
  IF S.world[o] = NoWorld
    THEN [S EXCEPT !.ret = NotOwned]
    ELSE LET r == WorldObjectRef(w, S.id[o], o)
         IN  Return([S EXCEPT !.refs = @ \cup {r}], r)

\* World.createRef(target)
createRef(S, w, o) ==
  IF S.world[o] # w
    THEN [S EXCEPT !.ret = NotOwned]
    ELSE LET r == WorldObjectRef(w, S.id[o], o)
         IN  Return([S EXCEPT !.refs = @ \cup {r}], r)

\* WorldObjectRef.target; None is the getter's null.
None == "none"

\* Mutant of target: the getter returns whatever the table holds under the id.
targetWithoutOwnerCheck(S, r) ==
  LET object == MapGet(S.objects[r.world], r.id)
  IN  IF object # Undefined THEN object ELSE None

target(S, r) ==
  LET object == MapGet(S.objects[r.world], r.id)
  IN  IF object # Undefined /\ S.world[object] = r.world THEN object ELSE None

(* ------------------------------------------------------------------ *)
(* Queries                                                            *)
(* ------------------------------------------------------------------ *)

Tags == {"enemy", "boss"}
Types == {"Enemy", "Boss", "Decoy", "Plain"}

\* The class of each object. Boss extends Enemy; Plain carries no
\* @WorldObject decorator.
classOf(o) ==
  CASE o = "a" -> "Enemy"
    [] o = "b" -> "Decoy"
    [] o = "c" -> "Boss"
    [] o = "d" -> "Plain"

\* Reflect.getOwnMetadata finds a definition on the object's class.
Decorated(o) == classOf(o) # "Plain"

\* getWorldObjectDefinition(object), for an object of a decorated class.
getWorldObjectDefinition(o) ==
  CASE classOf(o) = "Enemy" ->
         [type |-> "Enemy", metadata |-> [tags |-> <<"enemy">>, queryable |-> TRUE]]
    [] classOf(o) = "Boss" ->
         [type |-> "Boss", metadata |-> [tags |-> <<"enemy", "boss">>, queryable |-> TRUE]]
    [] classOf(o) = "Decoy" ->
         [type |-> "Decoy", metadata |-> [tags |-> <<"enemy">>, queryable |-> FALSE]]

\* object instanceof type
instanceOf(o, type) ==
  type = classOf(o) \/ (classOf(o) = "Boss" /\ type = "Enemy")

\* The constraints tags(...) and types(...) add to a query.
tagConstraint(tag) == [kind |-> "tag", arg |-> tag]
typeConstraint(type) == [kind |-> "type", arg |-> type]

\* constraint(object)
holds(constraint, o) ==
  IF constraint.kind = "tag"
    THEN \E i \in DOMAIN getWorldObjectDefinition(o).metadata.tags :
           getWorldObjectDefinition(o).metadata.tags[i] = constraint.arg
    ELSE instanceOf(o, constraint.arg)

\* Mutant of matches: one constraint that holds is enough.
matchesAny(q, o) == \E i \in DOMAIN q : holds(q[i], o)

\* WorldQuery.matches(object); q is the query's constraints in the order
\* they were added.
matches(q, o) == \A i \in DOMAIN q : holds(q[i], o)

\* WorldQuery.getQueryable()
getQueryable(S, w) ==
  LET all == MapValues(S.objects[w])
  IN  IF \E i \in DOMAIN all : ~Decorated(all[i])
        THEN TypeError
        ELSE [ok |-> TRUE,
              val |-> SelectSeq(all, LAMBDA o : getWorldObjectDefinition(o).metadata.queryable)]

\* first()'s null.
NoRef == WorldObjectRef(NoWorld, NoId, Undefined)

\* WorldQuery.first(): the outcome, a reference, NoRef or an error.
first(S, w, q) ==
  LET queryable == getQueryable(S, w)
  IN  IF ~queryable.ok THEN queryable
      ELSE LET found == SelectSeq(queryable.val, LAMBDA o : matches(q, o))
           IN  IF found = <<>> THEN [ok |-> TRUE, val |-> NoRef]
               ELSE IF S.world[found[1]] # w THEN NotOwned
               ELSE [ok |-> TRUE, val |-> WorldObjectRef(w, S.id[found[1]], found[1])]

\* WorldQuery.all(): the outcome, a sequence of references or an error.
all(S, w, q) ==
  LET queryable == getQueryable(S, w)
  IN  IF ~queryable.ok THEN queryable
      ELSE LET found == SelectSeq(queryable.val, LAMBDA o : matches(q, o))
           IN  IF \E i \in DOMAIN found : S.world[found[i]] # w THEN NotOwned
               ELSE [ok |-> TRUE,
                     val |-> [i \in DOMAIN found |-> WorldObjectRef(w, S.id[found[i]], found[i])]]

(* ------------------------------------------------------------------ *)
(* Actions                                                            *)
(* ------------------------------------------------------------------ *)

\* The driver is between two calls.
Idle == pc = "idle"

\* The driver's call has run to its end and its outcome is in ret.
Completed == pc = "call" /\ stack = <<>>

\* A hook is running: it is the code that acts next.
InHook == stack # <<>> /\ Top(St).type = "hook"

NumHooks == Cardinality({j \in DOMAIN stack : stack[j].type = "hook"})

\* The running hook may call into the kernel.
CanCall == InHook /\ Top(St).calls < MaxCalls /\ NumHooks < MaxNest

Begin(S, name, w, o) ==
  [S EXCEPT !.pc = "call",
            !.op = [name |-> name, w |-> w, o |-> o,
                    again |-> (S.op.name = name /\ S.op.w = w),
                    pre |-> Kernel(S), last |-> S.op.last]]

charge(S) == SetTop(S, [Top(S) EXCEPT !.calls = @ + 1])

\* lastId stays within the model's bound.
IdLeft(w) == lastId[w] < MaxId

Add(w, o, p) ==
  /\ Idle
  /\ world[o] = NoWorld => IdLeft(w)
  /\ Apply(add(Begin(St, "add", w, o), w, o, p))

Remove(w, o) ==
  /\ Idle
  /\ Apply(remove(Begin(St, "remove", w, o), w, o))

Purge(w) ==
  /\ Idle
  /\ Apply(purge(Begin(St, "purge", w, Undefined), w))

Step(w) ==
  /\ Idle
  /\ Apply(step(Begin(St, "step", w, Undefined), w))

ArrayStep(w) ==
  /\ Idle
  /\ Apply(arrayStep(Begin(St, "arrayStep", w, Undefined), w))

GetNextId(w) ==
  /\ Idle
  /\ IdLeft(w)
  /\ LET S1 == getNextId(Begin(St, "getNextId", w, Undefined), w)
     IN  Apply(Return(S1, S1.lastId[w]))

CreateRef(w, o) ==
  /\ Idle
  /\ Cardinality(refs) < MaxRefs
  /\ Apply(createRef(Begin(St, "createRef", w, o), w, o))

WillPurge(w, o) ==
  /\ Idle
  /\ Apply(Return(Begin(St, "willPurge", w, o), willPurge(St, w, o)))

Contains(w, o) ==
  /\ Idle
  /\ Apply(Return(Begin(St, "contains", w, o), contains(St, w, o)))

GetObjects(w) ==
  /\ Idle
  /\ Apply(Return(Begin(St, "getObjects", w, Undefined), getObjects(St, w)))

\* r.target of a reference the driver holds.
Target(r) ==
  /\ Idle
  /\ Apply(Return(Begin(St, "target", r.world, r), target(St, r)))

\* w.query() with constraints q, then matches(o) or getQueryable().
Matches(w, q, o) ==
  /\ Idle
  /\ Apply(Return(Begin(St, "matches", w, [q |-> q, o |-> o]), matches(q, o)))

GetQueryable(w) ==
  /\ Idle
  /\ Apply([Begin(St, "getQueryable", w, Undefined) EXCEPT !.ret = getQueryable(St, w)])

\* Mutant of QueryFirst: first() takes an id from the world for the
\* reference it returns.
QueryFirstTakingId(w, q) ==
  /\ Idle
  /\ Apply([getNextId(Begin(St, "first", w, q), w) EXCEPT !.ret = first(St, w, q)])

\* w.query() with constraints q, then first() or all().
QueryFirst(w, q) ==
  /\ Idle
  /\ Apply([Begin(St, "first", w, q) EXCEPT !.ret = first(St, w, q)])

QueryAll(w, q) ==
  /\ Idle
  /\ Apply([Begin(St, "all", w, q) EXCEPT !.ret = all(St, w, q)])

\* The driver's calls on the template-based World.
AddComponent(component) ==
  /\ Idle
  /\ Apply(addComponent(Begin(St, "addComponent", TemplateWorld, component), component))

Create(prefab) ==
  /\ Idle
  /\ templateWorld.lastId < MaxTemplateId
  /\ Apply(create(Begin(St, "create", TemplateWorld, prefab), prefab, <<>>))

\* The driver's calls on the objects the template-based World created; n is
\* the place of the object among them.
TemplateObjects == DOMAIN templateWorld.objects

ObjectAddComponent(n, component) ==
  /\ Idle
  /\ n \in TemplateObjects
  /\ Apply(objectAddComponent(
             Begin(St, "objectAddComponent", TemplateWorld, [n |-> n, component |-> component]),
             n, component))

ObjectRemoveComponent(n, type) ==
  /\ Idle
  /\ n \in TemplateObjects
  /\ Apply(objectRemoveComponent(
             Begin(St, "objectRemoveComponent", TemplateWorld, [n |-> n, type |-> type]),
             n, type))

ObjectGetComponent(n, type) ==
  /\ Idle
  /\ n \in TemplateObjects
  /\ Apply(objectGetComponent(
             Begin(St, "objectGetComponent", TemplateWorld, [n |-> n, type |-> type]),
             n, type))

\* object.getComponent(type).test = value, by the driver.
ObjectSetTest(n, type, value) ==
  /\ Idle
  /\ n \in TemplateObjects
  /\ hasComponent(templateWorld.objects[n].components, type)
  /\ LET j == CHOOSE j \in DOMAIN templateWorld.objects[n].components :
                 templateWorld.objects[n].components[j].type = type
         S1 == Begin(St, "objectSetTest", TemplateWorld, [n |-> n, type |-> type])
     IN  Apply(Return([S1 EXCEPT !.templateWorld.objects[n].components[j].test = value],
                      Undefined))

ObjectSave(n) ==
  /\ Idle
  /\ n \in TemplateObjects
  /\ Apply([Begin(St, "objectSave", TemplateWorld, n) EXCEPT
             !.ret = [ok |-> TRUE, val |-> objectSave(templateWorld.objects[n])]])

ObjectLoad(n, data) ==
  /\ Idle
  /\ n \in TemplateObjects
  /\ Apply(objectLoad(Begin(St, "objectLoad", TemplateWorld, [n |-> n, data |-> data]),
                      n, data))

TemplateSave ==
  /\ Idle
  /\ Apply(templateSave(Begin(St, "templateSave", TemplateWorld, Undefined)))

TemplateLoad(data) ==
  /\ Idle
  /\ templateWorld.lastId
       + Len(SelectSeq(data, LAMBDA entry : getPrefabFromKey(entry.k) # NoPrefab))
       <= MaxTemplateId
  /\ Apply(templateLoad(Begin(St, "templateLoad", TemplateWorld, data), data, 1))

\* No destroy hook of the object's components has been called
\* MaxDestroys times.
DestroysLeft(n) ==
  \A j \in DOMAIN templateWorld.objects[n].components :
    templateWorld.objects[n].components[j].destroys < MaxDestroys

ObjectDestroy(n) ==
  /\ Idle
  /\ n \in TemplateObjects
  /\ DestroysLeft(n)
  /\ Apply(objectDestroy(Begin(St, "objectDestroy", TemplateWorld, n), n))

TemplateDestroy ==
  /\ Idle
  /\ \A n \in TemplateObjects : DestroysLeft(n)
  /\ Apply(templateDestroy(Begin(St, "templateDestroy", TemplateWorld, Undefined)))

\* object.destroy() called from inside a running destroy hook.
HookObjectDestroy(n) ==
  /\ CanCall
  /\ n \in TemplateObjects
  /\ DestroysLeft(n)
  /\ Apply(objectDestroy(charge(St), n))

FindById(k) ==
  /\ Idle
  /\ Apply(Return(Begin(St, "findById", TemplateWorld, k), findById(St, k)))

FindOne(query) ==
  /\ Idle
  /\ Apply(Return(Begin(St, "findOne", TemplateWorld, query), findOne(St, query)))

FindMany(query) ==
  /\ Idle
  /\ Apply(Return(Begin(St, "findMany", TemplateWorld, query), findMany(St, query)))

TemplateStep ==
  /\ Idle
  /\ Apply(templateStep(Begin(St, "templateStep", TemplateWorld, Undefined)))

\* The driver takes the outcome of its call; the logs of the call are dropped.
Complete ==
  /\ Completed
  /\ Apply([St EXCEPT !.pc = "idle",
                      !.op = [NoOp EXCEPT !.name = op.name, !.w = op.w,
                                          !.last = IF op.name = "step" /\ ret.ok
                                                     THEN [op.last EXCEPT ![op.w] = ret.val]
                                                     ELSE op.last],
                      !.ret = NoRet, !.hooks = <<>>, !.handled = <<>>, !.deleted = <<>>])

HookReturns ==
  /\ InHook
  /\ Apply(hookReturn(St))

HookThrows(e) ==
  /\ InHook
  /\ Apply(hookThrow(St, e))

\* Kernel calls made from inside a running hook.
HookAdd(w, o, p) ==
  /\ CanCall
  /\ world[o] = NoWorld => IdLeft(w)
  /\ Apply(add(charge(St), w, o, p))

HookRemove(w, o) ==
  /\ CanCall
  /\ Apply(remove(charge(St), w, o))

HookPurge(w) ==
  /\ CanCall
  /\ Apply(purge(charge(St), w))

\* Kernel calls made by a running step hook, up to MaxStepCalls of them.
StepHookCanCall ==
  InHook /\ Top(St).kind = "step" /\ Top(St).calls < MaxStepCalls

StepHookAdd(w, o) ==
  /\ StepHookCanCall
  /\ world[o] = NoWorld => IdLeft(w)
  /\ Apply(add(charge(St), w, o, Undefined))

StepHookRemove(w, o) ==
  /\ StepHookCanCall
  /\ Apply(remove(charge(St), w, o))

StepHookPurge(w) ==
  /\ StepHookCanCall
  /\ Apply(purge(charge(St), w))

\* Time passes, at any point of a call or between calls.
Tick ==
  /\ clock < MaxClock
  /\ clock' = clock + 1
  /\ UNCHANGED <<objects, removed, lastId, lastStep, id, world, position, refs,
                 stack, hooks, handled, deleted, pc, op, ret, templateWorld>>

(* ------------------------------------------------------------------ *)
(* Specifications                                                     *)
(* ------------------------------------------------------------------ *)

\* One world driven by add/remove/purge/step/getNextId; hooks return or
\* throw, and make no calls of their own.
Next ==
  \/ \E o \in {"a", "b", "c"} : Add("w1", o, Undefined)
  \/ \E o \in {"a", "b", "c"} : Remove("w1", o)
  \/ Purge("w1")
  \/ Step("w1")
  \/ GetNextId("w1")
  \/ HookReturns
  \/ HookThrows("e1")
  \/ Complete

Spec == Init /\ [][Next]_vars

\* One world whose hooks call add, remove and purge on it.
NextReentrant ==
  \/ \E o \in {"a", "b"} : lastId["w1"] < MaxReentrantId /\ Add("w1", o, Undefined)
  \/ \E o \in {"a", "b"} : Remove("w1", o)
  \/ Purge("w1")
  \/ Step("w1")
  \/ HookReturns
  \/ \E o \in {"a", "b"} : lastId["w1"] < MaxReentrantId /\ HookAdd("w1", o, Undefined)
  \/ \E o \in {"a", "b"} : HookRemove("w1", o)
  \/ HookPurge("w1")
  \/ Complete

SpecReentrant == Init /\ [][NextReentrant]_vars

\* One world whose step hooks admit, remove and purge objects during the
\* pass; the other hooks make no calls.
NextPass ==
  \/ \E o \in {"a", "b"} : lastId["w1"] < MaxReentrantId /\ Add("w1", o, Undefined)
  \/ Step("w1")
  \/ \E o \in {"a", "b"} : lastId["w1"] < MaxReentrantId /\ StepHookAdd("w1", o)
  \/ \E o \in {"a", "b"} : StepHookRemove("w1", o)
  \/ StepHookPurge("w1")
  \/ HookReturns
  \/ Complete

SpecPass == Init /\ [][NextPass]_vars

\* One array-backed world of objects with components; the steps of the
\* objects and of their components return or throw.
NextMounted ==
  \/ \E o \in {"a", "b", "c"} : lastId["w1"] < MaxWorldsId /\ Add("w1", o, Undefined)
  \/ \E o \in {"a", "b", "c"} : Remove("w1", o)
  \/ ArrayStep("w1")
  \/ HookReturns
  \/ HookThrows("e1")
  \/ Complete

SpecMounted == Init /\ [][NextMounted]_vars

\* The query functions the driver passes to findOne and findMany.
WorldQueries ==
  {PrefabKeyQuery(key) : key \in Prefabs} \cup {TagQuery(tag) : tag \in {"solid", "box"}}

\* The template-based World between the creation and the destruction of
\* objects of a queryable and of a non-queryable prefab, and the finds the
\* driver makes; a destroy hook returns or throws.
NextFind ==
  \/ \E p \in Prefabs : Create(p)
  \/ \E n \in 1..MaxTemplateId : ObjectDestroy(n)
  \/ HookReturns
  \/ HookThrows("e1")
  \/ \E k \in 1..MaxTemplateId : FindById(k)
  \/ \E query \in WorldQueries : FindOne(query)
  \/ \E query \in WorldQueries : FindMany(query)
  \/ Complete

SpecFind == Init /\ [][NextFind]_vars

\* One world and the references the driver takes with createRef.
NextRefs ==
  \/ \E o \in {"a", "b"} : Add("w1", o, Undefined)
  \/ \E o \in {"a", "b"} : Remove("w1", o)
  \/ Purge("w1")
  \/ Step("w1")
  \/ \E o \in {"a", "b"} : CreateRef("w1", o)
  \/ HookReturns
  \/ Complete

SpecRefs == Init /\ [][NextRefs]_vars

\* One world under a clock that advances between and during the calls.
NextClock ==
  \/ \E o \in {"a", "b"} : Add("w1", o, Undefined)
  \/ \E o \in {"a", "b"} : Remove("w1", o)
  \/ Step("w1")
  \/ HookReturns
  \/ Tick
  \/ Complete

SpecClock == Init /\ [][NextClock]_vars

\* step() of either World class under the clock.  A program is built with
\* one of the two classes, so the driver uses the Map-backed World only
\* while the template-based one is untouched, and the other way round.
NextStep ==
  \/ \E o \in {"a", "b"} :
       /\ templateWorld = NewTemplateWorld
       /\ lastId["w1"] < MaxWorldsId
       /\ Add("w1", o, Undefined)
  \/ \E o \in {"a", "b"} : templateWorld = NewTemplateWorld /\ Remove("w1", o)
  \/ templateWorld = NewTemplateWorld /\ Step("w1")
  \/ \E c \in ComponentTypes :
       lastId["w1"] = 0 /\ lastStep["w1"] = NoStep /\ AddComponent(c)
  \/ \E p \in Prefabs : lastId["w1"] = 0 /\ lastStep["w1"] = NoStep /\ Create(p)
  \/ lastId["w1"] = 0 /\ lastStep["w1"] = NoStep /\ TemplateStep
  \/ HookReturns
  \/ Tick
  \/ Complete

SpecStep == Init /\ [][NextStep]_vars

\* The template-based World and the components of its objects: objects are
\* created from prefabs, one of which lists a class twice, and the driver
\* mounts, unmounts and fetches components.
NextMount ==
  \/ \E p \in Prefabs \cup {Twin} :
       Len(templateWorld.objects) < MaxMounted /\ Create(p)
  \/ \E n \in 1..MaxTemplateId, type \in ObjectComponentTypes, inst \in 1..MaxInst :
       ObjectAddComponent(n, Component(type, inst))
  \/ \E n \in 1..MaxTemplateId, type \in ObjectComponentTypes :
       ObjectRemoveComponent(n, type)
  \/ \E n \in 1..MaxTemplateId, type \in ObjectComponentTypes :
       ObjectGetComponent(n, type)
  \/ Complete

SpecMount == Init /\ [][NextMount]_vars

\* The saved states the driver passes to WorldObject.load: a prefab key, a
\* position and, for any of the component classes, null or a saved test.
Payloads == {Null, [test |-> Hello], [test |-> Updated]}

Absent == [absent |-> TRUE]

SavedTypes == <<"Audio", "Physics", "Sprite">>

ComponentMaps ==
  {SelectSeq([i \in DOMAIN SavedTypes |-> [type |-> SavedTypes[i], payload |-> m[i]]],
             LAMBDA entry : entry.payload # Absent) :
     m \in [DOMAIN SavedTypes -> Payloads \cup {Absent}]}

Snapshots == [k : Prefabs, p : Tuples, c : ComponentMaps]

\* Objects of the template-based World that are saved and loaded; the
\* driver mounts a component without hooks on some and changes the test
\* field of components.
NextSave ==
  \/ \E p \in Prefabs : Create(p)
  \/ \E n \in 1..MaxTemplateId : ObjectAddComponent(n, Component("Sprite", 1))
  \/ \E n \in 1..MaxTemplateId : ObjectRemoveComponent(n, "Audio")
  \/ \E n \in 1..MaxTemplateId, type \in {"Audio", "Physics"} :
       ObjectSetTest(n, type, Updated)
  \/ \E n \in 1..MaxTemplateId : ObjectSave(n)
  \/ Complete

SpecSave == Init /\ [][NextSave]_vars

\* Objects of the template-based World that are loaded from saved states,
\* those of other objects among them.
NextRound ==
  \/ \E p \in Prefabs : Create(p)
  \/ \E n \in 1..MaxTemplateId, type \in {"Audio", "Physics"} :
       ObjectSetTest(n, type, Updated)
  \/ \E n \in 1..MaxTemplateId : ObjectSave(n)
  \/ \E n \in 1..MaxTemplateId, data \in Snapshots : ObjectLoad(n, data)
  \/ Complete

SpecRound == Init /\ [][NextRound]_vars

\* The saved states the driver passes to World.load in a list: of a
\* registered or an unregistered key, with or without a test for Physics,
\* or with null for it.
Entries ==
  [k : {"crate", "marker", Ghost}, p : {<<1, 2>>},
   c : {<<>>, <<[type |-> "Physics", payload |-> [test |-> Updated]]>>,
        <<[type |-> "Physics", payload |-> Null]>>}]

Lists == UNION {[1..n -> Entries] : n \in 0..MaxList}

\* The template-based World saved and loaded as a whole, between the
\* creation and the destruction of objects.
NextWorldLoad ==
  \/ \E p \in Prefabs : Create(p)
  \/ \E n \in 1..MaxTemplateId : ObjectDestroy(n)
  \/ HookReturns
  \/ TemplateSave
  \/ \E data \in Lists : TemplateLoad(data)
  \/ Complete

SpecWorldLoad == Init /\ [][NextWorldLoad]_vars

\* Two worlds that are handed the same objects and asked about them.
NextObserve ==
  \/ \E w \in Worlds, o \in {"a", "b"} : lastId[w] < MaxWorldsId /\ Add(w, o, Undefined)
  \/ \E w \in Worlds, o \in {"a", "b"} : Remove(w, o)
  \/ \E w \in Worlds : Purge(w)
  \/ \E w \in Worlds, o \in {"a", "b"} : WillPurge(w, o)
  \/ \E w \in Worlds, o \in {"a", "b"} : Contains(w, o)
  \/ \E w \in Worlds : GetObjects(w)
  \/ HookReturns
  \/ Complete

SpecObserve == Init /\ [][NextObserve]_vars

\* The template-based World, its objects and their destruction; a destroy
\* hook returns, throws, or destroys an object itself.
NextDestroy ==
  \/ \E c \in ComponentTypes : ~templateWorld.destroyed /\ AddComponent(c)
  \/ \E p \in Prefabs : ~templateWorld.destroyed /\ Create(p)
  \/ \E n \in 1..MaxTemplateId : ObjectDestroy(n)
  \/ TemplateDestroy
  \/ \E n \in 1..MaxTemplateId : HookObjectDestroy(n)
  \/ HookReturns
  \/ HookThrows("e1")
  \/ Complete

SpecDestroy == Init /\ [][NextDestroy]_vars

\* Two worlds that are handed the same objects, with and without a
\* position.
NextPlace ==
  \/ \E w \in Worlds, o \in {"a", "b"}, p \in {Undefined} \cup Positions :
       lastId[w] < MaxWorldsId /\ Add(w, o, p)
  \/ \E w \in Worlds, o \in {"a", "b"} : Remove(w, o)
  \/ \E w \in Worlds : Purge(w)
  \/ HookReturns
  \/ Complete

SpecPlace == Init /\ [][NextPlace]_vars

\* Two worlds that are handed the same objects, and step.
NextWorlds ==
  \/ \E w \in Worlds, o \in {"a", "b"} : lastId[w] < MaxWorldsId /\ Add(w, o, Undefined)
  \/ \E w \in Worlds, o \in {"a", "b"} : Remove(w, o)
  \/ \E w \in Worlds : Purge(w)
  \/ \E w \in Worlds : Step(w)
  \/ HookReturns
  \/ Complete

SpecWorlds == Init /\ [][NextWorlds]_vars

\* Two worlds and the references the driver takes from them; the cap is on
\* the ids the two worlds hand out together.
NextWorldRefs ==
  \/ \E w \in Worlds, o \in {"a", "b"} :
       lastId["w1"] + lastId["w2"] < MaxWorldsId /\ Add(w, o, Undefined)
  \/ \E w \in Worlds, o \in {"a", "b"} : Remove(w, o)
  \/ \E w \in Worlds : Purge(w)
  \/ \E w \in Worlds, o \in {"a", "b"} : CreateRef(w, o)
  \/ HookReturns
  \/ Complete

SpecWorldRefs == Init /\ [][NextWorldRefs]_vars

\* The queries of at most MaxConstraints tag and type constraints.
Constraints ==
  {tagConstraint(t) : t \in Tags} \cup {typeConstraint(t) : t \in {"Enemy", "Boss"}}

Queries ==
  UNION {[1..n -> Constraints] : n \in 0..MaxConstraints}

\* One world and the queries the driver makes between its calls.
NextQuery ==
  \/ \E o \in {"a", "b", "c"} : Add("w1", o, Undefined)
  \/ \E o \in {"a", "b", "c"} : Remove("w1", o)
  \/ Purge("w1")
  \/ \E q \in Queries : QueryFirst("w1", q)
  \/ \E q \in Queries : QueryAll("w1", q)
  \/ HookReturns
  \/ Complete

SpecQuery == Init /\ [][NextQuery]_vars

\* One world that is changed by add, remove, purge and step, and read in
\* between: references are taken and resolved, queries are evaluated and
\* the observers are called.
NextRead ==
  \/ \E o \in {"a", "b"} : lastId["w1"] < MaxWorldsId /\ Add("w1", o, Undefined)
  \/ \E o \in {"a", "b"} : Remove("w1", o)
  \/ Purge("w1")
  \/ Step("w1")
  \/ CreateRef("w1", "a")
  \/ \E r \in refs : Target(r)
  \/ \E q \in Queries, o \in {"a", "b"} : Matches("w1", q, o)
  \/ GetQueryable("w1")
  \/ \E q \in Queries : QueryFirst("w1", q)
  \/ \E q \in Queries : QueryAll("w1", q)
  \/ \E o \in {"a", "b"} : WillPurge("w1", o)
  \/ \E o \in {"a", "b"} : Contains("w1", o)
  \/ GetObjects("w1")
  \/ HookReturns
  \/ Complete

SpecRead == Init /\ [][NextRead]_vars

(* ------------------------------------------------------------------ *)
(* Reference safety                                                   *)
(* ------------------------------------------------------------------ *)

\* C1: a reference taken before remove(o) resolves to none in every state
\* after that removal, whatever add/remove/purge/step calls follow, also
\* when o is admitted again.
C1_RemovedNeverResurfaces ==
  \A r \in refs : r.removed => target(St, r) = None

\* C2: createRef(o) of an admitted o resolves to o; from the moment remove(o)
\* has acted the reference resolves to none although o is still in the live
\* table; and it resolves to none when purge() has returned.
C2_RefFollowsLifecycle ==
  /\ (Completed /\ op.name = "createRef" /\ ret.ok) => target(St, ret.val) = op.o
  /\ (pc = "call" /\ op.name = "remove" /\ op.pre.world[op.o] = op.w) =>
       \A r \in refs : r.for = op.o =>
         /\ target(St, r) = None
         /\ r.id = op.pre.id[op.o] => MapGet(objects[op.w], r.id) = op.o
  /\ (Completed /\ op.name = "purge") =>
       \A r \in refs : r.removed =>
         target(St, r) = None /\ ~MapHas(objects[r.world], r.id)

\* C2 witness: remove(o) has returned, purge has not run, and a reference to
\* o taken before is held.
C2_Witness ==
  /\ Completed /\ op.name = "remove"
  /\ \E r \in refs : r.for = op.o /\ r.id = id[op.o] /\ MapGet(objects[op.w], r.id) = op.o


(* ------------------------------------------------------------------ *)
(* Queries and removal                                                *)
(* ------------------------------------------------------------------ *)

\* Object o has been removed from world w and not been purged: it has no
\* world, and it is in the live table under a pending id.
PendingRemoval(w, o) ==
  /\ world[o] = NoWorld
  /\ \E i \in DOMAIN objects[w] :
       objects[w][i].obj = o /\ SetHas(removed[w], objects[w][i].id)

\* The queryable objects matching q that are in world w's live table
\* without being pending removal.
LiveMatches(w, q) ==
  {o \in Objs : /\ world[o] = w
                /\ Decorated(o)
                /\ getWorldObjectDefinition(o).metadata.queryable
                /\ matches(q, o)}

\* C4: a query whose constraints match a queryable object that is removed
\* and not yet purged completes normally and does not return that object;
\* when nothing else matches, all() returns the empty list and first()
\* returns none.
C4_RemovedNotReturned ==
  (/\ Completed /\ op.name \in {"first", "all"}
   /\ \E o \in Objs : /\ PendingRemoval(op.w, o)
                      /\ Decorated(o)
                      /\ getWorldObjectDefinition(o).metadata.queryable
                      /\ matches(op.o, o))
  => /\ ret.ok
     /\ op.name = "first" =>
          /\ ret.val # NoRef => ~PendingRemoval(op.w, ret.val.for)
          /\ LiveMatches(op.w, op.o) = {} => ret.val = NoRef
     /\ op.name = "all" =>
          /\ \A i \in DOMAIN ret.val : ~PendingRemoval(op.w, ret.val[i].for)
          /\ LiveMatches(op.w, op.o) = {} => ret.val = <<>>

(* ------------------------------------------------------------------ *)
(* Identity                                                           *)
(* ------------------------------------------------------------------ *)

\* The ids in use in world w: those of its live-table entries and those of
\* the objects it owns.
IdsInUse(w) ==
  {objects[w][i].id : i \in 1..Len(objects[w])} \cup {id[o] : o \in {x \in Objs : world[x] = w}}

\* An admission of o happens in this step.
Admitted(o) == world[o] = NoWorld /\ world'[o] # NoWorld

\* C3: every admission assigns an id greater than every id assigned before
\* (all of which are at most lastId), lastId never decreases, no id is
\* assigned twice, also not at a re-admission, and no two live-table entries
\* share an id.
C3_IdsUniqueAndMonotonic ==
  [][/\ \A w \in Worlds :
          /\ lastId'[w] >= lastId[w]
          /\ \A k \in IdsInUse(w) : k <= lastId[w]
          /\ \A i, j \in 1..Len(objects'[w]) :
               objects'[w][i].id = objects'[w][j].id => i = j
     /\ \A o \in Objs :
          (Admitted(o) \/ id'[o] # id[o]) =>
            /\ Admitted(o)
            /\ id'[o] > lastId[world'[o]]
            /\ id'[o] = lastId'[world'[o]]
            /\ MapGet(objects'[world'[o]], id'[o]) = o]_vars

\* C3 witness: an object that had an id is admitted again and has a greater id.
C3_Witness ==
  /\ pc = "call" /\ op.name = "add"
  /\ op.pre.id[op.o] # NoId
  /\ id[op.o] > op.pre.id[op.o]

(* ------------------------------------------------------------------ *)
(* Failure isolation                                                  *)
(* ------------------------------------------------------------------ *)

\* The hook invocations of the driver's call that are of the given kind, and
\* those that threw.
HooksOfKind(kind) == SelectSeq(hooks, LAMBDA h : h.kind = kind)

FailedHooks == SelectSeq(hooks, LAMBDA h : h.out \in Errors)

\* C5: when step() has returned, it has returned its StepInfo although step
\* hooks threw; the step hook of every live-table entry was invoked, in
\* table order, each failure was reported to the step handler, and the
\* trailing purge ran: nothing is pending and every id that was pending has
\* left the table.
C5_StepIsolatesFailures ==
  (Completed /\ op.name = "step") =>
    /\ ret.ok
    /\ DOMAIN ret.val = {"previous", "current", "delta"}
    /\ [i \in DOMAIN HooksOfKind("step") |->
          [id |-> HooksOfKind("step")[i].id, obj |-> HooksOfKind("step")[i].o]]
         = op.pre.objects[op.w]
    /\ \A i \in DOMAIN hooks :
         (hooks[i].kind = "step" /\ hooks[i].out \in Errors) =>
           \E j \in DOMAIN handled :
             handled[j] = [handler |-> "onStepErrorHandler", o |-> hooks[i].o,
                           err |-> hooks[i].out]
    /\ removed[op.w] = <<>>
    /\ \A k \in Range(op.pre.removed[op.w]) : ~MapHas(objects[op.w], k)

\* C5 witness: step() has returned after a step hook threw, a later entry
\* was stepped all the same, and the trailing purge deleted an entry.
C5_Witness ==
  /\ Completed /\ op.name = "step"
  /\ \E i, j \in DOMAIN hooks :
       /\ i < j
       /\ hooks[i].kind = "step" /\ hooks[i].out \in Errors
       /\ hooks[j].kind = "step" /\ hooks[j].o # hooks[i].o
  /\ deleted # <<>>

\* C6: add, remove, purge and step return normally whatever their hooks
\* threw; the handlers invoked are, in order, exactly one per failed hook,
\* the one of the hook's kind, with the hook's object and error; and no
\* hook is invoked a second time for the same live-table entry.
C6_FailuresAreHandledOnce ==
  (Completed /\ op.name \in {"add", "remove", "purge", "step"}) =>
    /\ ret.ok
    /\ handled = [i \in DOMAIN FailedHooks |->
                    [handler |-> CASE FailedHooks[i].kind = "onAdd" -> "onAddErrorHandler"
                                   [] FailedHooks[i].kind = "onRemove" -> "onRemoveErrorHandler"
                                   [] FailedHooks[i].kind = "onPurge" -> "onPurgeErrorHandler"
                                   [] FailedHooks[i].kind = "step" -> "onStepErrorHandler",
                     o |-> FailedHooks[i].o,
                     err |-> FailedHooks[i].out]]
    /\ \A i, j \in DOMAIN hooks :
         (hooks[i].kind = hooks[j].kind /\ hooks[i].id = hooks[j].id) => i = j

\* C6 witness: one call has returned after two hooks of different kinds
\* threw.
C6_Witness ==
  /\ Completed
  /\ \E i, j \in DOMAIN handled : handled[i].handler # handled[j].handler

\* C7: whether a running onAdd, onRemove or onPurge hook returns or throws,
\* the kernel continues from the same kernel state (live table, pending
\* set, lastId, ids, back-references); and once add / remove has returned
\* after its hook threw, the object is admitted / is pending removal with
\* its back-reference cleared.
C7_FailureUndoesNothing ==
  /\ (InHook /\ Top(St).kind \in {"onAdd", "onRemove", "onPurge"}) =>
       \A e \in Errors : Kernel(hookThrow(St, e)) = Kernel(hookReturn(St))
  /\ (Completed /\ op.name = "add" /\ handled # <<>>) =>
       /\ world[op.o] = op.w
       /\ id[op.o] = lastId[op.w]
       /\ MapGet(objects[op.w], id[op.o]) = op.o
  /\ (Completed /\ op.name = "remove" /\ handled # <<>>) =>
       /\ world[op.o] = NoWorld
       /\ SetHas(removed[op.w], id[op.o])
       /\ MapGet(objects[op.w], id[op.o]) = op.o

\* C7 witness: add() has returned after the object's onAdd hook threw.
C7_Witness ==
  /\ Completed /\ op.name = "add"
  /\ hooks # <<>> /\ hooks[1].kind = "onAdd" /\ hooks[1].out \in Errors

(* ------------------------------------------------------------------ *)
(* Step passes and purges                                             *)
(* ------------------------------------------------------------------ *)

\* C8: when step() has returned, no object had its step hook invoked twice
\* in the pass, whatever add and remove calls the hooks made, and no entry
\* removed during the pass is in the live table.
C8_SteppedAtMostOnce ==
  (Completed /\ op.name = "step") =>
    /\ \A i, j \in DOMAIN hooks :
         (/\ hooks[i].kind = "step" /\ hooks[j].kind = "step"
          /\ hooks[i].o = hooks[j].o) => i = j
    /\ \A i \in DOMAIN hooks :
         hooks[i].kind = "onRemove" => ~MapHas(objects[op.w], hooks[i].id)

\* The ids that were pending removal at some point of the driver's call:
\* those pending when it began and those of the removals made by its hooks.
EverPending ==
  Range(op.pre.removed[op.w]) \cup
  {hooks[i].id : i \in {j \in DOMAIN hooks : hooks[j].kind = "onRemove" /\ hooks[j].w = op.w}}

\* C9: when purge() or step() has returned, also after onPurge hooks called
\* remove() or purge(), nothing is pending, no id that was pending has a
\* live-table entry, the onPurge invocations are one for one the entries
\* deleted, and every entry whose id was not pending is still in the table.
C9_PurgeSweepsAllPending ==
  (Completed /\ op.name \in {"purge", "step"}) =>
    /\ removed[op.w] = <<>>
    /\ \A k \in EverPending : ~MapHas(objects[op.w], k)
    /\ [i \in DOMAIN HooksOfKind("onPurge") |->
          [w |-> HooksOfKind("onPurge")[i].w,
           id |-> HooksOfKind("onPurge")[i].id,
           obj |-> HooksOfKind("onPurge")[i].o]] = deleted
    /\ \A i, j \in DOMAIN deleted : deleted[i].id = deleted[j].id => i = j
    /\ \A n \in DOMAIN op.pre.objects[op.w] :
         op.pre.objects[op.w][n].id \notin EverPending =>
           MapGet(objects[op.w], op.pre.objects[op.w][n].id) = op.pre.objects[op.w][n].obj

\* C9 witness: purge() has returned after one of its onPurge hooks called
\* remove() or purge(), and an entry that was not pending remains.
C9_Witness ==
  /\ Completed /\ op.name = "purge"
  /\ \E i, j \in DOMAIN hooks :
       i < j /\ hooks[i].kind = "onPurge" /\ hooks[j].kind \in {"onRemove", "onPurge"}
  /\ Len(deleted) > 1

\* C10: a purge() that directly follows a purge() on the same world, and
\* any purge() that finds the pending set empty, invokes no hook, reports
\* no error, returns normally and leaves the live table, the pending set,
\* lastId, the ids and the back-references as they were.
C10_PurgeIdempotent ==
  (/\ pc = "call" /\ op.name = "purge"
   /\ op.again \/ op.pre.removed[op.w] = <<>>)
  => /\ Completed
     /\ hooks = <<>> /\ handled = <<>> /\ deleted = <<>>
     /\ ret.ok
     /\ Kernel(St) = op.pre

\* C10 witness: a second purge() in a row has returned in a world that
\* holds an object and has had an entry swept.
C10_Witness ==
  /\ Completed /\ op.name = "purge" /\ op.again
  /\ objects[op.w] # <<>>
  /\ Len(objects[op.w]) < lastId[op.w]

(* ------------------------------------------------------------------ *)
(* Step timing                                                        *)
(* ------------------------------------------------------------------ *)

\* C12: when step() has returned, lastStep is the timestamp the call read
\* at its start and reported as current; and if the world was stepped
\* before, the call's previous is the earlier call's current and its delta
\* is the difference of the two calls' start timestamps.
C12_LastStepIsStartTime ==
  (Completed /\ op.name = "step" /\ ret.ok) =>
    /\ lastStep[op.w] = ret.val.current
    /\ op.pre.lastStep[op.w] # NoStep =>
         /\ ret.val.previous = op.last[op.w].current
         /\ ret.val.delta = ret.val.current - op.last[op.w].current

\* C13: the first step() of a world reports delta 0 and previous = current;
\* every step() reports delta = current - previous >= 0; and a step() that
\* starts later than the previous one ended reports delta > 0.
C13_StepDelta ==
  (Completed /\ op.name = "step" /\ ret.ok) =>
    /\ op.pre.lastStep[op.w] = NoStep =>
         ret.val.delta = 0 /\ ret.val.previous = ret.val.current
    /\ ret.val.delta = ret.val.current - ret.val.previous
    /\ ret.val.delta >= 0
    /\ (op.pre.lastStep[op.w] # NoStep /\ ret.val.current > op.pre.lastStep[op.w]) =>
         ret.val.delta > 0

\* C13 witness: a later step() has returned a positive delta.
C13_Witness ==
  /\ Completed /\ op.name = "step"
  /\ op.pre.lastStep[op.w] # NoStep
  /\ ret.val.delta > 0 /\ ret.val.previous > 0

(* ------------------------------------------------------------------ *)
(* Ownership                                                          *)
(* ------------------------------------------------------------------ *)

\* C14: add(o, p) of an object that a world owns, this one or another,
\* invokes no hook, allocates no id and leaves lastId, o's id, back-reference
\* and position and the live tables of all worlds as they were; it returns o.
C14_AddOwnedIsNoOp ==
  (pc = "call" /\ op.name = "add" /\ op.pre.world[op.o] # NoWorld) =>
    /\ Completed
    /\ hooks = <<>> /\ handled = <<>>
    /\ ret = [ok |-> TRUE, val |-> op.o]
    /\ Kernel(St) = op.pre

\* C14 witness: add(o) has returned in a world while another world owns o.
C14_Witness ==
  /\ Completed /\ op.name = "add"
  /\ op.pre.world[op.o] \notin {NoWorld, op.w}
  /\ MapHas(objects[world[op.o]], id[op.o])

\* C15: no object is in the live tables of two worlds at the same time, and
\* no step hook runs for a world while the object's back-reference names
\* another world.
C15_ExclusiveOwnership ==
  /\ \A o \in Objs : \A w1, w2 \in Worlds :
       (/\ \E i \in DOMAIN objects[w1] : objects[w1][i].obj = o
        /\ \E j \in DOMAIN objects[w2] : objects[w2][j].obj = o) => w1 = w2
  /\ (InHook /\ Top(St).kind = "step") => world[Top(St).o] \in {NoWorld, Top(St).w}

\* C16: remove(o) of an object this world owns puts o's id in the pending
\* set, clears the back-reference before onRemove runs, invokes onRemove
\* once and leaves the live table as it was; remove(o) of any other object
\* invokes no hook and changes nothing.
C16_RemoveActsOnOwnedOnly ==
  (pc = "call" /\ op.name = "remove") =>
    IF op.pre.world[op.o] = op.w
      THEN /\ Len(hooks) = 1
           /\ hooks[1].kind = "onRemove" /\ hooks[1].o = op.o
           /\ hooks[1].id = op.pre.id[op.o]
           /\ world[op.o] = NoWorld
           /\ SetHas(removed[op.w], op.pre.id[op.o])
           /\ MapGet(objects[op.w], op.pre.id[op.o]) = op.o
           /\ objects = op.pre.objects
           /\ Kernel(St) = [op.pre EXCEPT !.world[op.o] = NoWorld,
                                          !.removed[op.w] = Append(@, op.pre.id[op.o])]
      ELSE /\ Completed
           /\ hooks = <<>> /\ handled = <<>>
           /\ ret.ok
           /\ Kernel(St) = op.pre

\* C16 witness: a second remove(o) in a row has returned and o is still
\* pending from the first.
C16_Witness ==
  /\ Completed /\ op.name = "remove" /\ op.again
  /\ op.pre.world[op.o] = NoWorld
  /\ SetHas(removed[op.w], id[op.o])
  /\ MapGet(objects[op.w], id[op.o]) = op.o

(* ------------------------------------------------------------------ *)
(* References                                                         *)
(* ------------------------------------------------------------------ *)

\* C17: createRef(o) changes no kernel state; it throws the not-owned error
\* exactly when o's back-reference is not this world, and otherwise returns
\* a reference of this world and of o's current id.
C17_CreateRefNeedsOwner ==
  (Completed /\ op.name = "createRef") =>
    /\ Kernel(St) = op.pre
    /\ hooks = <<>>
    /\ ret.ok <=> op.pre.world[op.o] = op.w
    /\ ~ret.ok => ret = [ok |-> FALSE, val |-> "NotOwned"]
    /\ ret.ok => ret.val.world = op.w /\ ret.val.id = id[op.o] /\ ret.val \in refs

\* C17 witness: createRef(o) has failed in a world while another world owns o.
C17_Witness ==
  /\ Completed /\ op.name = "createRef" /\ ~ret.ok
  /\ world[op.o] \notin {NoWorld, op.w}

\* C18: a reference resolves to none or to the object it was created for.
C18_TargetIsOwnObject ==
  \A r \in refs : target(St, r) \in {None, r.for}

\* C18 witness: the object of a reference has been purged and the world
\* has admitted an object since.
C18_Witness ==
  \E r \in refs :
    /\ r.removed /\ ~MapHas(objects[r.world], r.id)
    /\ lastId[r.world] > r.id
    /\ objects[r.world] # <<>>

\* C19: whenever a reference resolves to an object, the object's current
\* id is the reference's id and its back-reference is the reference's world.
C19_RefYieldsTargetId ==
  \A r \in refs :
    target(St, r) # None =>
      id[target(St, r)] = r.id /\ world[target(St, r)] = r.world

(* ------------------------------------------------------------------ *)
(* Query visibility                                                   *)
(* ------------------------------------------------------------------ *)

\* The object's class is decorated and its metadata says queryable.
Queryable(o) == Decorated(o) /\ getWorldObjectDefinition(o).metadata.queryable

\* The object's metadata lists the tag.
HasTag(o, tag) ==
  /\ Decorated(o)
  /\ \E i \in DOMAIN getWorldObjectDefinition(o).metadata.tags :
       getWorldObjectDefinition(o).metadata.tags[i] = tag

\* C20: first() and all() never return an object that is not queryable;
\* and of a query tags(x), all() returns every live queryable object that
\* carries x, and first() returns such an object when it is the first
\* match in the live table.
C20_QueryVisibility ==
  (Completed /\ op.name \in {"first", "all"}) =>
    /\ (ret.ok /\ op.name = "first" /\ ret.val # NoRef) => Queryable(ret.val.for)
    /\ (ret.ok /\ op.name = "all") => \A i \in DOMAIN ret.val : Queryable(ret.val[i].for)
    /\ \A x \in Tags : \A o \in Objs :
         (/\ op.o = <<tagConstraint(x)>>
          /\ world[o] = op.w /\ Queryable(o) /\ HasTag(o, x)) =>
           /\ op.name = "all" => ret.ok /\ \E i \in DOMAIN ret.val : ret.val[i].for = o
           /\ (/\ op.name = "first"
               /\ \E i \in DOMAIN objects[op.w] :
                    /\ objects[op.w][i].obj = o
                    /\ \A j \in 1..(i - 1) :
                         ~(Queryable(objects[op.w][j].obj) /\ HasTag(objects[op.w][j].obj, x)))
              => ret.ok /\ ret.val.for = o

(* ------------------------------------------------------------------ *)
(* Phases of a step                                                   *)
(* ------------------------------------------------------------------ *)

ListsTwice(types) ==
  \E i, j \in DOMAIN types : i # j /\ types[i] = types[j]

\* C21: addComponent of a class that is already mounted throws the
\* duplicate-component error and leaves the owner's components as they
\* were, so getComponent still returns the instance mounted first; no owner
\* ever holds two components of one class; and creating an object from a
\* prefab whose factory lists a class twice throws the same error and adds
\* no object.
C21_DuplicateComponent ==
  /\ \A n \in TemplateObjects :
       ~ListsTwice([i \in DOMAIN templateWorld.objects[n].components |->
                     templateWorld.objects[n].components[i].type])
  /\ pc = "call" /\ op.name = "objectAddComponent" =>
       LET before == op.pre.templateWorld.objects[op.o.n].components
           after == templateWorld.objects[op.o.n].components
           type == op.o.component.type
       IN  IF hasComponent(before, type)
             THEN /\ ~ret.ok /\ ret.val = Duplicate.val
                  /\ after = before
                  /\ getComponent(after, type) = getComponent(before, type)
             ELSE /\ ret.ok
                  /\ getComponent(after, type) = [ok |-> TRUE, val |-> op.o.component]
  /\ pc = "call" /\ op.name = "create" /\ ListsTwice(prefabComponents(op.o)) =>
       /\ ~ret.ok /\ ret.val = Duplicate.val
       /\ templateWorld.objects = op.pre.templateWorld.objects

\* A second instance of a class is refused while the first one is mounted.
C21_Witness ==
  /\ pc = "call" /\ op.name = "objectAddComponent"
  /\ ~ret.ok
  /\ LET mounted == getComponent(templateWorld.objects[op.o.n].components,
                                  op.o.component.type)
     IN  mounted.ok /\ mounted.val.inst # op.o.component.inst

(* ------------------------------------------------------------------ *)
(* Results of a query                                                 *)
(* ------------------------------------------------------------------ *)

\* The objects of world w's live table, in table order, that are queryable
\* and satisfy every constraint of q.
TableMatches(w, q) ==
  SelectSeq(MapValues(objects[w]), LAMBDA o : Queryable(o) /\ matches(q, o))

\* C22: all() returns normally, with one reference for each queryable
\* object of the live table that satisfies the query's constraints, no
\* object twice, in live-table order; first() returns normally, with a
\* reference to the object of all()'s first element, or with none exactly
\* when all() returns the empty list.
C22_AllAndFirst ==
  (Completed /\ op.name \in {"first", "all"}) =>
    LET a == all(St, op.w, op.o)
        f == first(St, op.w, op.o)
    IN  /\ ret = IF op.name = "all" THEN a ELSE f
        /\ a.ok
        /\ [i \in DOMAIN a.val |-> a.val[i].for] = TableMatches(op.w, op.o)
        /\ \A i, j \in DOMAIN a.val : a.val[i].for = a.val[j].for => i = j
        /\ \A i \in DOMAIN a.val : MapGet(objects[op.w], a.val[i].id) = a.val[i].for
        /\ f.ok
        /\ f.val = NoRef <=> a.val = <<>>
        /\ f.val # NoRef => f.val = a.val[1]

\* The constraints of q, added in the opposite order.
Reverse(q) == [i \in DOMAIN q |-> q[Len(q) + 1 - i]]

\* What a constraint asks of an object, read off the object's class and tags.
Satisfies(o, constraint) ==
  IF constraint.kind = "tag" THEN HasTag(o, constraint.arg)
                             ELSE instanceOf(o, constraint.arg)

\* C23: the outcome of a query is the same when its constraints are added
\* in the opposite order; when all() returns, it returns exactly the
\* queryable objects of the live table for which every constraint holds:
\* every listed tag is carried and every listed type is the object's class
\* or a superclass of it; with no constraint, that is every queryable object.
C23_MatchIsConjunction ==
  (Completed /\ op.name \in {"first", "all"}) =>
    LET a == all(St, op.w, op.o)
        table == Range(MapValues(objects[op.w]))
    IN  /\ all(St, op.w, Reverse(op.o)) = a
        /\ first(St, op.w, Reverse(op.o)) = first(St, op.w, op.o)
        /\ \A o \in table :
             matches(op.o, o) <=> \A i \in DOMAIN op.o : Satisfies(o, op.o[i])
        /\ a.ok =>
             /\ {a.val[i].for : i \in DOMAIN a.val}
                  = {o \in table : /\ Queryable(o)
                                    /\ \A i \in DOMAIN op.o : Satisfies(o, op.o[i])}
             /\ op.o = <<>> =>
                  {a.val[i].for : i \in DOMAIN a.val} = {o \in table : Queryable(o)}

\* A query of two different constraints has returned some queryable
\* objects and left out one for which only one of the two holds.
C23_Witness ==
  /\ Completed /\ op.name = "all" /\ ret.ok
  /\ Len(op.o) = 2 /\ op.o[1] # op.o[2]
  /\ ret.val # <<>>
  /\ \E o \in Range(MapValues(objects[op.w])) :
       /\ Queryable(o)
       /\ Satisfies(o, op.o[1]) # Satisfies(o, op.o[2])

(* ------------------------------------------------------------------ *)
(* Saving and loading                                                 *)
(* ------------------------------------------------------------------ *)

\* The entries of a component map that are keyed by a class.
EntriesOf(c, type) == {i \in DOMAIN c : c[i].type = type}

\* C24: when save() has returned, the component map of the snapshot holds,
\* for each mounted component that defines save, one entry keyed by its
\* class with what its save returns, and no entry for a mounted component
\* that does not define save, and no other entry; and the call has changed
\* nothing of the object, its components or the world.
C24_SaveSnapshot ==
  (Completed /\ op.name = "objectSave") =>
    LET object == templateWorld.objects[op.o]
        c == ret.val.c
    IN  /\ \A j \in DOMAIN object.components :
             IF HasSave(object.components[j].type)
               THEN /\ Cardinality(EntriesOf(c, object.components[j].type)) = 1
                    /\ \A i \in EntriesOf(c, object.components[j].type) :
                         c[i].payload = componentSave(object.components[j])
               ELSE EntriesOf(c, object.components[j].type) = {}
        /\ \A i \in DOMAIN c : hasComponent(object.components, c[i].type)
        /\ Kernel(St) = op.pre

\* The object as World.create(prefab) leaves it.
Fresh(object) ==
  /\ object.position = Vector(0, 0)
  /\ object.components = factory(object.prefab)
  /\ ~object.destroyed

\* load() has returned on an object o2 that was fresh, with the saved state
\* of another object o of the same prefab: the objects o it may have been.
RoundTripsOf(n2) ==
  {n1 \in TemplateObjects \ {n2} :
     /\ Completed /\ op.name = "objectLoad" /\ op.o.n = n2
     /\ Fresh(op.pre.templateWorld.objects[n2])
     /\ templateWorld.objects[n1].prefab = templateWorld.objects[n2].prefab
     /\ op.o.data = objectSave(templateWorld.objects[n1])}

\* The saved state of the component of a class, as save() lists it.
EntryOf(object, type) ==
  {objectSave(object).c[i] : i \in EntriesOf(objectSave(object).c, type)}

LoadCalls == SelectSeq(hooks, LAMBDA call : call.kind = "load")

\* The entries of a saved state whose key is the class of a mounted
\* component that defines load.
Loadable(object, data) ==
  {i \in DOMAIN data.c : /\ hasComponent(object.components, data.c[i].type)
                         /\ HasLoad(data.c[i].type)}

\* C26: load(data) returns unless a load hook throws, and when it has
\* returned the position is data.p, the load hook has been invoked once,
\* with the entry's payload, for each entry of data.c keyed by the class of
\* a mounted component that defines load, and for nothing else; the
\* components so loaded hold the payload, and every other component, every
\* other object and the world are as before.
C26_LoadFrame ==
  (Completed /\ op.name = "objectLoad") =>
    LET n == op.o.n
        data == op.o.data
        was == op.pre.templateWorld.objects[n]
        object == templateWorld.objects[n]
    IN  /\ ret.ok <=> \A i \in Loadable(was, data) : data.c[i].payload # Null
        /\ ret.ok =>
             /\ toTuple(object.position) = data.p
             /\ Len(LoadCalls) = Cardinality(Loadable(was, data))
             /\ \A i \in Loadable(was, data) :
                  \E h \in DOMAIN LoadCalls :
                    /\ LoadCalls[h].o = data.c[i].type
                    /\ LoadCalls[h].id = object.id
                    /\ LoadCalls[h].info = data.c[i].payload
             /\ \A j \in DOMAIN was.components :
                  IF \E i \in Loadable(was, data) : data.c[i].type = was.components[j].type
                    THEN \A i \in Loadable(was, data) :
                           data.c[i].type = was.components[j].type =>
                             object.components[j] =
                               [was.components[j] EXCEPT !.test = data.c[i].payload.test]
                    ELSE object.components[j] = was.components[j]
             /\ templateWorld =
                  [op.pre.templateWorld EXCEPT
                     !.objects[n].position = object.position,
                     !.objects[n].components = object.components]

\* load() has returned after it loaded one component, passed over a key of
\* a class that is not mounted and over one of a class without load, and
\* moved the object.
C26_Witness ==
  /\ Completed /\ op.name = "objectLoad" /\ ret.ok
  /\ Len(LoadCalls) = 1
  /\ \E i \in DOMAIN op.o.data.c :
       ~hasComponent(templateWorld.objects[op.o.n].components, op.o.data.c[i].type)
  /\ \E i \in DOMAIN op.o.data.c :
       /\ hasComponent(templateWorld.objects[op.o.n].components, op.o.data.c[i].type)
       /\ ~HasLoad(op.o.data.c[i].type)
  /\ templateWorld.objects[op.o.n].position # op.pre.templateWorld.objects[op.o.n].position
  /\ templateWorld.objects[op.o.n].components # op.pre.templateWorld.objects[op.o.n].components

(* ------------------------------------------------------------------ *)
(* Destruction                                                        *)
(* ------------------------------------------------------------------ *)

\* C28: over the calls of destroy() on an object and on the world, the
\* destroy hook of each of an object's components is called at most once
\* and the object is taken out of its world at most once; a destroy() of an
\* object that destroy() was called on before, and a destroy() of the world
\* right after another, call no hook and change nothing.
C28_DestroyIdempotent ==
  /\ \A n \in TemplateObjects :
       /\ templateWorld.objects[n].removals <= 1
       /\ \A j \in DOMAIN templateWorld.objects[n].components :
            templateWorld.objects[n].components[j].destroys <= 1
  /\ (/\ Completed /\ op.name = "objectDestroy"
      /\ op.pre.templateWorld.objects[op.o].destroyCalled)
       => hooks = <<>> /\ templateWorld = op.pre.templateWorld
  /\ (Completed /\ op.name = "templateDestroy" /\ op.again)
       => hooks = <<>> /\ templateWorld = op.pre.templateWorld

(* ------------------------------------------------------------------ *)
(* Saving and loading a world                                         *)
(* ------------------------------------------------------------------ *)

\* The entries of a list whose key a prefab is registered under.
Registered(data) == SelectSeq(data, LAMBDA entry : getPrefabFromKey(entry.k) # NoPrefab)

\* C27: World.load(data) returns unless a load hook throws; when it has
\* returned, the world's objects are those it had, unchanged, followed by
\* one new object per entry with a registered key, in the order of the
\* entries, with the next ids, none of them taken for a skipped entry, and
\* each new object holds its entry: the prefab, the position and the loaded
\* components.  World.save() returns the saved states of the objects the
\* world holds, in their order, and changes nothing.
C27_WorldLoad ==
  /\ (Completed /\ op.name = "templateLoad") =>
       LET data == Registered(op.o)
           was == op.pre.templateWorld
       IN  /\ ret.ok <=> \A i \in DOMAIN data :
                           Loadable([components |-> factory(data[i].k)], data[i]) # {}
                             => \A e \in DOMAIN data[i].c : data[i].c[e].payload # Null
           /\ ret.ok =>
                /\ templateWorld =
                     [was EXCEPT !.lastId = @ + Len(data),
                                 !.objects = @ \o SubSeq(templateWorld.objects,
                                                         Len(was.objects) + 1,
                                                         Len(was.objects) + Len(data)),
                                 !.queryable = templateWorld.queryable]
                /\ Range(templateWorld.queryable) =
                     Range(was.queryable) \cup
                       {Len(was.objects) + i : i \in {j \in DOMAIN data : prefabQueryable(data[j].k)}}
                /\ \A i \in DOMAIN data :
                     LET object == templateWorld.objects[Len(was.objects) + i]
                     IN  /\ object.id = was.lastId + i
                         /\ object.prefab = data[i].k
                         /\ toTuple(object.position) = data[i].p
                         /\ object.inWorld /\ ~object.destroyed
                         /\ objectSave(object).c =
                              [j \in DOMAIN prefabComponents(data[i].k) |->
                                 LET type == prefabComponents(data[i].k)[j]
                                 IN  [type |-> type,
                                      payload |->
                                        IF HasLoad(type) /\ EntriesOf(data[i].c, type) # {}
                                          THEN data[i].c[CHOOSE e \in EntriesOf(data[i].c, type) : TRUE].payload
                                          ELSE [test |-> Hello]]]
  /\ (Completed /\ op.name = "templateSave") =>
       /\ ret.ok
       /\ Len(ret.val) = Cardinality({n \in TemplateObjects : templateWorld.objects[n].inWorld})
       /\ \A n \in TemplateObjects :
            templateWorld.objects[n].inWorld =>
              ret.val[Cardinality({m \in 1..n : templateWorld.objects[m].inWorld})]
                = objectSave(templateWorld.objects[n])
       /\ Kernel(St) = op.pre

\* World.load has returned after it skipped an entry and created and loaded
\* an object from the next, in a world that had created an object before.
C27_Witness ==
  /\ Completed /\ op.name = "templateLoad" /\ ret.ok
  /\ Len(Registered(op.o)) = 1 /\ Len(op.o) = 2
  /\ op.o[1].k = Ghost
  /\ op.o[2].c # <<>>
  /\ Len(op.pre.templateWorld.objects) = 1
  /\ templateWorld.objects[2].components # factory(templateWorld.objects[2].prefab)

(* ------------------------------------------------------------------ *)
(* Observers                                                          *)
(* ------------------------------------------------------------------ *)

\* The objects a purge() of world w that starts in kernel state K purges:
\* those of the live-table entries whose id is pending.
PurgedNext(K, w) ==
  {K.objects[w][i].obj : i \in {j \in DOMAIN K.objects[w] :
                                   SetHas(K.removed[w], K.objects[w][j].id)}}

\* C29: willPurge(o) returns true exactly when the next purge() of the
\* world deletes a live-table entry that holds o and calls o.onPurge; the
\* objects a purge() does that to are those of the entries that were
\* pending when it started.
C29_WillPurgePredictsPurge ==
  /\ (Completed /\ op.name = "willPurge") =>
       ret.val = (op.o \in PurgedNext(Kernel(St), op.w))
  /\ (Completed /\ op.name = "purge") =>
       /\ {deleted[i].obj : i \in DOMAIN deleted} = PurgedNext(op.pre, op.w)
       /\ {HooksOfKind("onPurge")[i].o : i \in DOMAIN HooksOfKind("onPurge")}
            = PurgedNext(op.pre, op.w)

\* C30: contains(o) returns true exactly when o is among the objects that
\* getObjects() of the same world returns.
C30_ContainsIffListed ==
  /\ (Completed /\ op.name = "contains") =>
       ret.val = (op.o \in Range(getObjects(St, op.w)))
  /\ (Completed /\ op.name = "getObjects") =>
       \A o \in Objs : contains(St, op.w, o) <=> o \in Range(ret.val)

(* ------------------------------------------------------------------ *)
(* Lifecycle of an object                                             *)
(* ------------------------------------------------------------------ *)

\* C31: at the moment onPurge(o) is invoked for an entry of world w, the
\* last lifecycle hook of o was the onRemove that made the entry's id
\* pending (an onAdd since would have given o another id), and o is not
\* owned by w.
C31_LifecycleOrder ==
  (InHook /\ Top(St).kind = "onPurge" /\ Top(St).calls = 0) =>
    /\ id[Top(St).o] = hooks[Top(St).h].id
    /\ world[Top(St).o] # Top(St).w

\* What a hook that has just been invoked finds: its object admitted
\* (onAdd), pending removal (onRemove), or its entry deleted (onPurge).
HookView ==
  (InHook /\ Top(St).calls = 0) =>
    LET f == Top(St)
        k == hooks[f.h].id
    IN  /\ f.kind = "onAdd" =>
             /\ id[f.o] = k /\ k = lastId[f.w]
             /\ MapGet(objects[f.w], k) = f.o
             /\ world[f.o] = f.w
        /\ f.kind = "onRemove" =>
             /\ id[f.o] = k
             /\ world[f.o] = NoWorld
             /\ SetHas(removed[f.w], k)
             /\ MapGet(objects[f.w], k) = f.o
        /\ f.kind = "onPurge" => ~MapHas(objects[f.w], k)

\* C32: a hook runs on updated kernel state.  While onAdd(o) runs, o is in
\* the live table under its new id, the world's latest, its back-reference
\* is the world and the position argument of the call, if any, is o's
\* position; while onRemove(o) runs, o has no world and its id is pending
\* while its entry is in the live table; while onPurge(o) runs, the entry
\* purged is no longer in the live table.
C32_HooksSeeUpdatedState ==
  [][/\ HookView'
     /\ (Idle /\ op'.name = "add" /\ world[op'.o] = NoWorld) =>
          /\ InHook' /\ Top(St').kind = "onAdd"
          /\ Top(St').o = op'.o /\ Top(St').w = op'.w
          /\ id'[op'.o] = lastId[op'.w] + 1
          /\ \A p \in {Undefined} \cup Positions :
               Add(op'.w, op'.o, p) =>
                 position'[op'.o] = IF p # Undefined THEN p ELSE position[op'.o]
          /\ \E p \in {Undefined} \cup Positions : Add(op'.w, op'.o, p)
     /\ (Idle /\ op'.name = "remove" /\ world[op'.o] = op'.w) =>
          /\ InHook' /\ Top(St').kind = "onRemove"
          /\ Top(St').o = op'.o /\ Top(St').w = op'.w]_vars

\* C32 witness: onAdd runs for an object that was admitted with a position
\* argument and had been admitted before, while another entry is pending.
C32_Witness ==
  /\ InHook /\ Top(St).kind = "onAdd"
  /\ position[Top(St).o] # op.pre.position[Top(St).o]
  /\ op.pre.id[Top(St).o] # NoId
  /\ removed[Top(St).w] # <<>>

\* C33: when a purge() in which an onPurge hook threw has returned, it has
\* returned normally, every entry that was pending has been deleted from
\* the live table and had the onPurge hook of its object invoked once, the
\* entries of the failed hooks included, each failure went to the purge
\* handler, and the pending set is empty.
C33_PurgeIsolatesFailures ==
  (/\ Completed /\ op.name = "purge"
   /\ \E i \in DOMAIN hooks : hooks[i].kind = "onPurge" /\ hooks[i].out \in Errors)
  => /\ ret.ok
     /\ removed[op.w] = <<>>
     /\ \A k \in Range(op.pre.removed[op.w]) :
          /\ ~MapHas(objects[op.w], k)
          /\ MapHas(op.pre.objects[op.w], k) =>
               \E i \in DOMAIN hooks :
                 /\ hooks[i].kind = "onPurge" /\ hooks[i].id = k
                 /\ hooks[i].o = MapGet(op.pre.objects[op.w], k)
                 /\ \A j \in DOMAIN hooks :
                      (hooks[j].kind = "onPurge" /\ hooks[j].id = k) => j = i
     /\ Len(HooksOfKind("onPurge")) = Len(op.pre.removed[op.w])
     /\ \A i \in DOMAIN hooks :
          hooks[i].out \in Errors =>
            \E j \in DOMAIN handled :
              handled[j] = [handler |-> "onPurgeErrorHandler", o |-> hooks[i].o,
                            err |-> hooks[i].out]

\* C33 witness: purge() has returned after the onPurge hook of the first
\* pending entry threw and that of a later entry, of another object, ran.
C33_Witness ==
  /\ Completed /\ op.name = "purge"
  /\ \E i, j \in DOMAIN hooks :
       /\ i < j
       /\ hooks[i].kind = "onPurge" /\ hooks[i].out \in Errors
       /\ hooks[j].kind = "onPurge" /\ hooks[j].o # hooks[i].o
       /\ ~MapHas(objects[op.w], hooks[j].id)

(* ------------------------------------------------------------------ *)
(* Back-references and the tables                                     *)
(* ------------------------------------------------------------------ *)

\* World w's live table maps o's current id to o and that id is not
\* pending in w.
LiveUnder(w, o) ==
  MapGet(objects[w], id[o]) = o /\ ~SetHas(removed[w], id[o])

\* C34: between the driver's calls, an object's back-reference is world w
\* exactly when w's live table maps the object's current id to it and that
\* id is not pending in w; every pending id has a live-table entry, every
\* live-table entry that is not pending is owned by the world, under the
\* entry's id; and an id becomes pending only in the step that invokes the
\* onRemove hook for it.
C34_OwnerIffLive ==
  [][/\ Idle' =>
          /\ \A w \in Worlds, o \in Objs : world'[o] = w <=> LiveUnder(w, o)'
          /\ \A w \in Worlds : \A k \in Range(removed'[w]) : MapHas(objects'[w], k)
          /\ \A w \in Worlds : \A i \in DOMAIN objects'[w] :
               ~SetHas(removed'[w], objects'[w][i].id) =>
                 /\ world'[objects'[w][i].obj] = w
                 /\ id'[objects'[w][i].obj] = objects'[w][i].id
     /\ \A w \in Worlds : \A k \in Range(removed'[w]) \ Range(removed[w]) :
          /\ InHook' /\ Top(St').kind = "onRemove" /\ Top(St').w = w
          /\ hooks'[Top(St').h].id = k]_vars

\* C34 witness: between two calls, an object owned by one world still has a
\* pending entry in the other, next to an entry that is not pending.
C34_Witness ==
  /\ Idle
  /\ \E o \in Objs :
       /\ world[o] = "w2"
       /\ \E i, j \in DOMAIN objects["w1"] :
            /\ objects["w1"][i].obj = o /\ SetHas(removed["w1"], objects["w1"][i].id)
            /\ ~SetHas(removed["w1"], objects["w1"][j].id)

(* ------------------------------------------------------------------ *)
(* The step pass and the live table                                   *)
(* ------------------------------------------------------------------ *)

\* The index in the hook log of the step hook invoked for the entry of id k,
\* the set of them.
SteppedAt(k) == {i \in DOMAIN hooks : hooks[i].kind = "step" /\ hooks[i].id = k}

\* C35: when step() has returned, the step hook of every entry that was in
\* the live table when the call began has been invoked, for the entry's
\* object; and every entry that was pending removal when the call began or
\* whose object was removed by a hook during the pass has been stepped in
\* the pass and deleted after the last step hook, with no back-reference
\* left to the world for its id.
C35_PendingAreStepped ==
  (Completed /\ op.name = "step") =>
    /\ \A n \in DOMAIN op.pre.objects[op.w] :
         \E i \in SteppedAt(op.pre.objects[op.w][n].id) :
           hooks[i].o = op.pre.objects[op.w][n].obj
    /\ \A k \in EverPending :
         /\ SteppedAt(k) # {}
         /\ ~MapHas(objects[op.w], k)
         /\ \E d \in DOMAIN hooks :
              /\ hooks[d].kind = "onPurge" /\ hooks[d].id = k
              /\ \A i \in DOMAIN hooks : hooks[i].kind = "step" => i < d

\* The iteration of the driver's step() comes to its end in this step: the
\* loop over the live table is left for the trailing purge.
PassEnds ==
  /\ pc = "call" /\ op.name = "step"
  /\ stack # <<>> /\ stack[1].type = "step" /\ stack[1].kind = "loop"
  /\ stack' = <<>> \/ stack'[1].kind # "loop"

\* C36: in the Map-backed World, when the iteration of step() ends, every
\* object admitted to the world by a hook during the pass has had its step
\* hook invoked in the pass, after its admission and after the step hooks of
\* all entries admitted before it; and no entry of the live table is left
\* unvisited.
C36_AdmittedInPassIsStepped ==
  [][PassEnds =>
       /\ \A h \in DOMAIN hooks :
            (hooks[h].kind = "onAdd" /\ hooks[h].w = op.w) =>
              \E i \in SteppedAt(hooks[h].id) : i > h /\ hooks[i].o = hooks[h].o
       /\ \A i, j \in DOMAIN hooks :
            (hooks[i].kind = "step" /\ hooks[j].kind = "step" /\ i < j) =>
              hooks[i].id < hooks[j].id
       /\ stack[1].i = Len(objects[op.w])
       /\ \A n \in DOMAIN objects[op.w] : SteppedAt(objects[op.w][n].id) # {}]_vars

(* ------------------------------------------------------------------ *)
(* Objects with components under step                                 *)
(* ------------------------------------------------------------------ *)

\* The step hooks of objects and of their components in the hook log, and
\* the place of such a hook in its object's sequence: 0 for the object's
\* own step, n for the n-th mounted component.
IsStepOf(i) == hooks[i].kind \in {"ownStep", "mountedStep"}

PlaceOf(i) == IF hooks[i].kind = "ownStep" THEN 0 ELSE hooks[i].id

\* C37: when step() of the array-backed World has returned, it has stepped
\* every object of its array, in order, own step first; a component's step
\* was invoked only directly after the successful step of what precedes it
\* in the mount order of the same object; a successful step was directly
\* followed by that of the next mounted component, if there is one; and a
\* failure went to the step handler with the object, so that the object's
\* remaining components were not stepped while the next object was.
C37_ComponentsStepInMountOrder ==
  (Completed /\ op.name = "arrayStep") =>
    LET snap == MapValues(op.pre.objects[op.w])
        own == SelectSeq(hooks, LAMBDA h : h.kind = "ownStep")
    IN  /\ ret.ok
        /\ [j \in DOMAIN own |-> own[j].o] = snap
        /\ \A i \in DOMAIN hooks :
             hooks[i].kind = "mountedStep" =>
               /\ i > 1
               /\ IsStepOf(i - 1)
               /\ hooks[i - 1].o = hooks[i].o
               /\ hooks[i - 1].out = "ok"
               /\ PlaceOf(i - 1) = PlaceOf(i) - 1
               /\ PlaceOf(i) <= Len(mountedOn(hooks[i].o))
        /\ \A i \in DOMAIN hooks :
             (IsStepOf(i) /\ hooks[i].out = "ok"
              /\ PlaceOf(i) < Len(mountedOn(hooks[i].o))) =>
               /\ i + 1 \in DOMAIN hooks
               /\ hooks[i + 1].kind = "mountedStep"
               /\ hooks[i + 1].o = hooks[i].o
               /\ PlaceOf(i + 1) = PlaceOf(i) + 1
        /\ \A i \in DOMAIN hooks :
             (IsStepOf(i) /\ hooks[i].out \in Errors) =>
               \E j \in DOMAIN handled :
                 handled[j] = [handler |-> "onStepErrorHandler", o |-> hooks[i].o,
                               err |-> hooks[i].out]

\* C37 witness: step() has returned after the first of the two components
\* of an object threw, and the object after it was stepped.
C37_Witness ==
  /\ Completed /\ op.name = "arrayStep"
  /\ \E i \in DOMAIN hooks :
       /\ hooks[i].kind = "mountedStep" /\ hooks[i].id = 1 /\ hooks[i].out \in Errors
       /\ Len(mountedOn(hooks[i].o)) = 2
       /\ i + 1 \in DOMAIN hooks
       /\ hooks[i + 1].kind = "ownStep" /\ hooks[i + 1].o # hooks[i].o

(* ------------------------------------------------------------------ *)
(* The queryable set of the template-based World                      *)
(* ------------------------------------------------------------------ *)

\* The places of the objects World.objects holds whose prefab is queryable.
LiveQueryable ==
  {n \in DOMAIN templateWorld.objects :
     templateWorld.objects[n].inWorld /\ prefabQueryable(templateWorld.objects[n].prefab)}

\* C38: in the template-based World the queryable set holds exactly the
\* objects of World.objects whose prefab is queryable, each once, and no
\* destroyed object is in World.objects; findMany returns the queryable
\* objects that satisfy the query, none of them destroyed or of a
\* non-queryable prefab, findOne the first of them or null, and findById
\* the object World.objects holds under the id, null for the id of a
\* destroyed object.
C38_QueryableIsLiveQueryable ==
  LET T == templateWorld
  IN  /\ Range(T.queryable) = LiveQueryable
      /\ Len(T.queryable) = Cardinality(LiveQueryable)
      /\ \A n \in DOMAIN T.objects : T.objects[n].destroyed => ~T.objects[n].inWorld
      /\ (Completed /\ op.name = "findMany") =>
           /\ ret.ok
           /\ \A i \in DOMAIN ret.val :
                /\ ~T.objects[ret.val[i]].destroyed
                /\ prefabQueryable(T.objects[ret.val[i]].prefab)
                /\ queryHolds(op.o, T.objects[ret.val[i]])
           /\ Range(ret.val) = {n \in LiveQueryable : queryHolds(op.o, T.objects[n])}
      /\ (Completed /\ op.name = "findOne") =>
           /\ ret.ok
           /\ ret.val = IF findMany(St, op.o) = <<>> THEN NoObject ELSE findMany(St, op.o)[1]
           /\ ret.val # NoObject =>
                /\ ~T.objects[ret.val].destroyed
                /\ prefabQueryable(T.objects[ret.val].prefab)
                /\ queryHolds(op.o, T.objects[ret.val])
           /\ ret.val = NoObject =>
                \A n \in LiveQueryable : ~queryHolds(op.o, T.objects[n])
      /\ (Completed /\ op.name = "findById") =>
           /\ ret.ok
           /\ \A n \in DOMAIN T.objects :
                T.objects[n].id = op.o =>
                  ret.val = IF T.objects[n].destroyed THEN NoObject ELSE n

\* C38 witness: findMany has returned the empty list for a query that is
\* satisfied by a destroyed object of a queryable prefab and by an object of
\* a non-queryable prefab that World.objects holds.
C38_Witness ==
  /\ Completed /\ op.name = "findMany" /\ ret.val = <<>>
  /\ \E n, m \in DOMAIN templateWorld.objects :
       /\ templateWorld.objects[n].destroyed
       /\ prefabQueryable(templateWorld.objects[n].prefab)
       /\ queryHolds(op.o, templateWorld.objects[n])
       /\ templateWorld.objects[m].inWorld
       /\ ~prefabQueryable(templateWorld.objects[m].prefab)
       /\ queryHolds(op.o, templateWorld.objects[m])

(* ------------------------------------------------------------------ *)
(* Reads                                                              *)
(* ------------------------------------------------------------------ *)

\* The calls that only read the world.
Reads ==
  {"target", "matches", "first", "all", "getQueryable", "contains", "willPurge",
   "getObjects"}

\* C39: resolving a reference, evaluating a query (matches, first, all,
\* getQueryable) and the observers contains, willPurge and getObjects run to
\* their end without invoking a hook or an error handler, delete nothing
\* and leave the live tables, the pending sets, lastId, lastStep and every
\* object's id, back-reference and position as they were, whether they
\* return or throw.
C39_ReadsChangeNothing ==
  (pc = "call" /\ op.name \in Reads) =>
    /\ Completed
    /\ hooks = <<>> /\ handled = <<>> /\ deleted = <<>>
    /\ objects = op.pre.objects
    /\ removed = op.pre.removed
    /\ lastId = op.pre.lastId
    /\ lastStep = op.pre.lastStep
    /\ id = op.pre.id
    /\ world = op.pre.world
    /\ Kernel(St) = op.pre

\* C39 witness: all() has thrown for a match that is pending removal, in a
\* world that has been stepped and holds references.
C39_Witness ==
  /\ Completed /\ op.name = "all" /\ ~ret.ok
  /\ removed[op.w] # <<>>
  /\ lastStep[op.w] # NoStep
  /\ refs # {}

====
